---- MODULE Spec2Model ----
(***************************************************************************)
(* A model of the RemUp compiler core: the line parser RemUpParser         *)
(* (remup/parser.py), the annotation linker VibeCardProcessor with the     *)
(* compiler's second linking pass (remup/parser.py, remup/compiler.py),    *)
(* the tokenizer Lexer (remup/lexer.py) and the AST dataclasses            *)
(* (remup/ast_nodes.py), and the compile guard of the preview server       *)
(* WebSocketPreviewServer (remup/websocket_preview.py).                    *)
(*                                                                         *)
(* Text is modelled as sequences of one-character strings, so that the     *)
(* regular expressions, strip(), split() and join() of the source are      *)
(* computed character by character.                                        *)
(***************************************************************************)
EXTENDS Integers, Sequences, FiniteSets, TLC

VARIABLES parser, linker, lexer, server

vars == <<parser, linker, lexer, server>>

(***************************************************************************)
(* Bounds of the model.                                                    *)
(***************************************************************************)
\* longest source text, in lines, given to RemUpParser.parse
MaxLines == 3
\* longest text, in lines, given to Lexer.tokenize on a fresh Lexer
MaxLexLines == 3
\* longest text, in lines, given to a Lexer instance that is used again
MaxReuseLines == 3
\* number of tokenize calls made on one Lexer instance
MaxCalls == 2
\* number of linking passes run on one Document
MaxPasses == 2
\* number of Cards and Regions of a Document given to the linker
MaxItems == 3
\* number of inline pieces of a line given to _process_line_content
MaxPieces == 3
\* number of invocations of compile_and_notify in one run of the server
MaxTasks == 3

(***************************************************************************)
(* Characters and Python's str / re primitives.                            *)
(***************************************************************************)
NL == "\n"

\* Python's whitespace, as matched by \s and removed by str.strip()
SpaceChars == {" ", "\t", "\r", NL}

\* the characters matched by \w (ASCII letters, digits, underscore)
WordChars ==
  {"a","b","c","d","e","f","g","h","i","j","k","l","m","n","o","p","q","r",
   "s","t","u","v","w","x","y","z","A","B","C","D","E","F","G","H","I","J",
   "K","L","M","N","O","P","Q","R","S","T","U","V","W","X","Y","Z","0","1",
   "2","3","4","5","6","7","8","9","_"}

DigitChars == {"0","1","2","3","4","5","6","7","8","9"}

IsSpace(c) == c \in SpaceChars

IsWord(c) == c \in WordChars

\* s[from..], the suffix of s that starts at index from (1-based)
Drop(s, from) == SubSeq(s, from, Len(s))

\* s[..to]
Take(s, to) == SubSeq(s, 1, to)

StartsWith(s, p) == Len(s) >= Len(p) /\ SubSeq(s, 1, Len(p)) = p

AllSpace(s) == \A k \in 1..Len(s) : IsSpace(s[k])

\* index of the first character of s at or after from that satisfies
\* membership in set cs, or 0
RECURSIVE FindChar(_, _, _)
FindChar(s, cs, from) ==
  IF from > Len(s) THEN 0
  ELSE IF s[from] \in cs THEN from
  ELSE FindChar(s, cs, from + 1)

\* the length of the longest prefix of s made of characters of cs
RECURSIVE RunIn(_, _)
RunIn(s, cs) ==
  IF s = <<>> \/ s[1] \notin cs THEN 0 ELSE 1 + RunIn(Tail(s), cs)

\* the length of the longest prefix of s made of characters outside cs
RECURSIVE RunNotIn(_, _)
RunNotIn(s, cs) ==
  IF s = <<>> \/ s[1] \in cs THEN 0 ELSE 1 + RunNotIn(Tail(s), cs)

\* str.lstrip()
LStrip(s) == Drop(s, RunIn(s, SpaceChars) + 1)

\* str.rstrip()
RECURSIVE RStrip(_)
RStrip(s) ==
  IF s = <<>> THEN s
  ELSE IF IsSpace(s[Len(s)]) THEN RStrip(Take(s, Len(s) - 1))
  ELSE s

\* str.strip()
Strip(s) == LStrip(RStrip(s))

\* str.rstrip('\r')
RECURSIVE RStripCR(_)
RStripCR(s) ==
  IF s = <<>> THEN s
  ELSE IF s[Len(s)] = "\r" THEN RStripCR(Take(s, Len(s) - 1))
  ELSE s

\* sep.join(parts) for a separator given as a character sequence
RECURSIVE Join(_, _)
Join(parts, sep) ==
  IF parts = <<>> THEN <<>>
  ELSE IF Len(parts) = 1 THEN parts[1]
  ELSE parts[1] \o sep \o Join(Tail(parts), sep)

\* str.split(c) for a one-character separator
RECURSIVE Split(_, _)
Split(s, c) ==
  LET p == FindChar(s, {c}, 1)
  IN IF p = 0 THEN <<s>>
     ELSE <<Take(s, p - 1)>> \o Split(Drop(s, p + 1), c)

\* str.lower() on the letters the model uses
LowerOf(c) ==
  CASE c = "A" -> "a" [] c = "B" -> "b" [] c = "C" -> "c" [] c = "D" -> "d"
    [] c = "E" -> "e" [] c = "F" -> "f" [] c = "G" -> "g" [] c = "H" -> "h"
    [] c = "I" -> "i" [] c = "J" -> "j" [] c = "K" -> "k" [] c = "L" -> "l"
    [] c = "M" -> "m" [] c = "N" -> "n" [] c = "O" -> "o" [] c = "P" -> "p"
    [] c = "Q" -> "q" [] c = "R" -> "r" [] c = "S" -> "s" [] c = "T" -> "t"
    [] c = "U" -> "u" [] c = "V" -> "v" [] c = "W" -> "w" [] c = "X" -> "x"
    [] c = "Y" -> "y" [] c = "Z" -> "z" [] OTHER -> c

Lower(s) == [k \in 1..Len(s) |-> LowerOf(s[k])]

\* the first index at or after from where sub occurs in s, or 0 (str.find)
RECURSIVE Find(_, _, _)
Find(s, sub, from) ==
  IF from + Len(sub) - 1 > Len(s) THEN 0
  ELSE IF SubSeq(s, from, from + Len(sub) - 1) = sub THEN from
  ELSE Find(s, sub, from + 1)

\* sub in s
Contains(s, sub) == Find(s, sub, 1) # 0

NoMatch == [ok |-> FALSE]

(***************************************************************************)
(* The AST dataclasses (remup/ast_nodes.py).  A dataclass constructor      *)
(* called with keyword arguments raises TypeError unless every field       *)
(* without a default is given and every keyword names a field.             *)
(***************************************************************************)
VibeCardClass ==
  [required |-> {"id", "content", "annotation"}, optional |-> {"source_card"}]

LabelClass ==
  [required |-> {"symbol", "content"}, optional |-> {"label_type"}]

RegionClass ==
  [required |-> {"name", "content"},
   optional |-> {"lines", "vibe_cards", "inline_explanations", "lists",
                 "code_blocks"}]

MainCardClass ==
  [required |-> {"theme", "labels", "regions"}, optional |-> {"vibe_cards"}]

VibeArchiveClass ==
  [required |-> {}, optional |-> {"name", "cards", "source_lines"}]

ArchiveClass ==
  [required |-> {"name", "cards"}, optional |-> {"description"}]

DocumentClass ==
  [required |-> {"title", "archives"}, optional |-> {"vibe_archive"}]

\* the generated __init__ accepts the call
Accepts(cls, kwargs) ==
  /\ cls.required \subseteq kwargs
  /\ kwargs \subseteq (cls.required \cup cls.optional)

(***************************************************************************)
(* RemUpParser.PATTERNS (parser.py 45-57), each applied with re.match to   *)
(* the stripped line.  A matcher returns [ok |-> FALSE] or a record with   *)
(* ok and the groups the handlers read.                                    *)
(***************************************************************************)
\* The backquote cannot be written in a TLA+ string: the character @, which
\* no modelled text uses otherwise, stands for it (BT in the comments).
Backtick == "@"

Fence == <<Backtick, Backtick, Backtick>>

\* ^--<([^>]+)>--\s*$
Pat_archive(s) ==
  IF ~StartsWith(s, <<"-", "-", "<">>) THEN NoMatch
  ELSE LET rest == Drop(s, 4)
           n == RunNotIn(rest, {">"})
           after == Drop(rest, n + 1)
       IN IF n >= 1 /\ StartsWith(after, <<">", "-", "-">>)
             /\ AllSpace(Drop(after, 4))
          THEN [ok |-> TRUE, g1 |-> Take(rest, n)]
          ELSE NoMatch

\* ^<\+([^/]+)\s*$
Pat_card_start(s) ==
  IF ~StartsWith(s, <<"<", "+">>) THEN NoMatch
  ELSE LET rest == Drop(s, 3)
       IN IF rest # <<>> /\ RunNotIn(rest, {"/"}) = Len(rest)
          THEN [ok |-> TRUE, g1 |-> rest]
          ELSE NoMatch

\* ^/\+>\s*$
Pat_card_end(s) ==
  IF StartsWith(s, <<"/", "+", ">">>) /\ AllSpace(Drop(s, 4))
  THEN [ok |-> TRUE] ELSE NoMatch

\* ^\(([^:]+):\s*([^)]+)\)\s*$
Pat_label(s) ==
  IF ~StartsWith(s, <<"(">>) THEN NoMatch
  ELSE LET rest == Drop(s, 2)
           n == RunNotIn(rest, {":"})
           body == Drop(rest, n + 2)
           m == RunNotIn(body, {")"})
           x == Take(body, m)
       IN IF n >= 1 /\ n < Len(rest) /\ m >= 1 /\ m < Len(body)
             /\ AllSpace(Drop(body, m + 2))
          THEN [ok |-> TRUE, g1 |-> Take(rest, n),
                g2 |-> IF AllSpace(x) THEN <<x[m]>> ELSE LStrip(x)]
          ELSE NoMatch

\* ^---\s*(\w+)\s*$
Pat_region(s) ==
  IF ~StartsWith(s, <<"-", "-", "-">>) THEN NoMatch
  ELSE LET rest == LStrip(Drop(s, 4))
           n == RunIn(rest, WordChars)
       IN IF n >= 1 /\ AllSpace(Drop(rest, n + 1))
          THEN [ok |-> TRUE, g1 |-> Take(rest, n)]
          ELSE NoMatch

\* BT([^BT]+)BT\[([^\]]+)\] tried at index pos of s; end is the index after
\* the match
VibeAt(s, pos) ==
  IF pos > Len(s) \/ s[pos] # Backtick THEN NoMatch
  ELSE LET rest == Drop(s, pos + 1)
           n == RunNotIn(rest, {Backtick})
           after == Drop(rest, n + 2)
           m == IF after = <<>> THEN 0 ELSE RunNotIn(Tail(after), {"]"})
       IN IF n >= 1 /\ n < Len(rest) /\ after # <<>> /\ after[1] = "["
             /\ m >= 1 /\ m + 1 < Len(after)
          THEN [ok |-> TRUE, g1 |-> Take(rest, n),
                g2 |-> SubSeq(after, 2, m + 1),
                end |-> pos + 1 + n + 1 + 1 + m + 1]
          ELSE NoMatch

Pat_vibe_card(s) == VibeAt(s, 1)

\* >>\s*([^\n<]+), tried at index pos
ExplanationAt(s, pos) ==
  IF ~StartsWith(Drop(s, pos), <<">", ">">>) THEN NoMatch
  ELSE LET rest == Drop(s, pos + 2)
           w == RunIn(rest, SpaceChars)
           g == Drop(rest, w + 1)
       IN IF g # <<>> /\ g[1] \notin {NL, "<"}
          THEN [ok |-> TRUE, g1 |-> Take(g, RunNotIn(g, {NL, "<"}))]
          ELSE IF w >= 1 /\ rest[w] # NL
          THEN [ok |-> TRUE, g1 |-> <<rest[w]>>]
          ELSE NoMatch

Pat_inline_explanation(s) == ExplanationAt(s, 1)

\* ^\s*#
Pat_comment(s) ==
  LET rest == LStrip(s)
  IN IF rest # <<>> /\ rest[1] = "#" THEN [ok |-> TRUE] ELSE NoMatch

\* ^BT BT BT\s*(\w*)\s*$
Pat_code_block_start(s) ==
  IF ~StartsWith(s, Fence) THEN NoMatch
  ELSE LET rest == LStrip(Drop(s, 4))
           n == RunIn(rest, WordChars)
       IN IF AllSpace(Drop(rest, n + 1))
          THEN [ok |-> TRUE, g1 |-> Take(rest, n)]
          ELSE NoMatch

\* ^BT BT BT\s*$
Pat_code_block_end(s) ==
  IF StartsWith(s, Fence) /\ AllSpace(Drop(s, 4))
  THEN [ok |-> TRUE] ELSE NoMatch

\* ^\s*$
Pat_empty_line(s) == IF AllSpace(s) THEN [ok |-> TRUE] ELSE NoMatch

\* The first pattern of PATTERNS, in dictionary order, that matches the
\* line (parser.py 358-360), or "none".
FirstPattern(s) ==
  CASE Pat_archive(s).ok -> "archive"
    [] Pat_card_start(s).ok -> "card_start"
    [] Pat_card_end(s).ok -> "card_end"
    [] Pat_label(s).ok -> "label"
    [] Pat_region(s).ok -> "region"
    [] Pat_vibe_card(s).ok -> "vibe_card"
    [] Pat_inline_explanation(s).ok -> "inline_explanation"
    [] Pat_comment(s).ok -> "comment"
    [] Pat_code_block_start(s).ok -> "code_block_start"
    [] Pat_code_block_end(s).ok -> "code_block_end"
    [] Pat_empty_line(s).ok -> "empty_line"
    [] OTHER -> "none"

\* the patterns for which RemUpParser has a method _process_<name>
PatternsWithMethod ==
  {"card_start", "card_end", "label", "code_block_start", "code_block_end"}

\* the number of parameters, besides self, of each _process_<name> method;
\* _process_line calls every one of them with three arguments
MethodArity ==
  [card_start |-> 3, card_end |-> 2, label |-> 3, code_block_start |-> 3,
   code_block_end |-> 2]

\* method(match, all_lines, current_index)
DispatchArgs == 3


(***************************************************************************)
(* VibeCardProcessor (parser.py 492-690).  A Document is the value         *)
(*   [title, archives, vibe_archive]; an Archive [name, cards,             *)
(*   description]; a card [theme, labels, regions, vibe_cards]; a Region   *)
(*   [name, content, lines, vibe_cards, inline_explanations]; a Label      *)
(*   [symbol, content, label_type].  None is the Python None.              *)
(***************************************************************************)
None == [none |-> TRUE]

\* re.finditer of the annotation pattern over text, from index pos on
RECURSIVE VibeMatchesFrom(_, _)
VibeMatchesFrom(text, pos) ==
  IF pos > Len(text) THEN <<>>
  ELSE LET m == VibeAt(text, pos)
       IN IF m.ok THEN <<m>> \o VibeMatchesFrom(text, m.end)
          ELSE VibeMatchesFrom(text, pos + 1)

VibeMatches(text) == VibeMatchesFrom(text, 1)

\* the keywords of the call VibeCard(...) at parser.py 383-388 and 566-571
VibeCardKwargs == {"content", "annotation", "source_card", "line_number"}

\* the keywords of the call MainCard(...) at parser.py 215-221 and 618-628
MainCardKwargs == {"theme", "labels", "regions", "vibe_cards", "metadata"}

\* the keywords of the call VibeArchive(...) at parser.py 517-521
VibeArchiveKwargs == {"name", "cards", "description"}

\* the keywords of the call Document(...) at parser.py 113
DocumentKwargs == {"archives"}

\* the keywords of the call Label(...) at compiler.py 410-414
EnhanceLabelKwargs == {"symbol", "content", "type"}

\* the keywords of the calls Label(...) at parser.py 285-289, 579-583, 684-688
LabelKwargs == {"symbol", "content", "label_type"}

\* the keywords of the call Region(...) at parser.py 258-264
RegionKwargs ==
  {"name", "content", "lines", "vibe_cards", "inline_explanations"}

\* the keywords of the calls Archive(...) at parser.py 150-154
ArchiveKwargs == {"name", "cards", "description"}

\* the VibeCards of the matches ms: [raised, cards]
vibe_cards_of(ms, source_card, line_number) ==
  IF ms # <<>> /\ ~Accepts(VibeCardClass, VibeCardKwargs)
  THEN [raised |-> TRUE, cards |-> <<>>]
  ELSE [raised |-> FALSE,
        cards |-> [k \in 1..Len(ms) |->
                     [content |-> Strip(ms[k].g1),
                      annotation |-> Strip(ms[k].g2),
                      source_card |-> source_card,
                      line_number |-> line_number]]]

\* _extract_vibe_cards_from_text: one VibeCard per match of the annotation
\* pattern; the result is [raised, cards]
extract_vibe_cards_from_text(text, source_card, line_number) ==
  vibe_cards_of(VibeMatches(text), source_card, line_number)

\* vibe_cards.extend(more) after the cards found so far, unless finding
\* them raised
ThenCards(found, more) ==
  IF found.raised THEN found
  ELSE [raised |-> more.raised, cards |-> found.cards \o more.cards]

\* the loop of _extract_vibe_cards_from_region over region.lines, from the
\* 0-based index i on (parser.py 549-553)
RECURSIVE extract_from_lines(_, _, _)
extract_from_lines(lines, source_card, i) ==
  IF i >= Len(lines) THEN [raised |-> FALSE, cards |-> <<>>]
  ELSE ThenCards(extract_vibe_cards_from_text(lines[i + 1], source_card, i),
                 extract_from_lines(lines, source_card, i + 1))

\* _extract_vibe_cards_from_region: the annotations of region.content, then
\* those of every line of region.lines
extract_vibe_cards_from_region(region, source_card) ==
  ThenCards(extract_vibe_cards_from_text(region.content, source_card, 0),
            extract_from_lines(region.lines, source_card, 0))

\* the cards found in an earlier region, before those of the later ones
PrependCards(cards, rest) == [rest EXCEPT !.cards = cards \o @]

\* _extract_vibe_cards_from_card, from region k on: the result is
\* [raised, cards, regions], regions being card.regions with the vibe_cards
\* assigned so far (parser.py 533-536)
RECURSIVE extract_from_regions(_, _, _)
RECURSIVE extract_region_step(_, _, _, _)
extract_region_step(regions, theme, k, r) ==
  IF r.raised THEN [raised |-> TRUE, cards |-> <<>>, regions |-> regions]
  ELSE PrependCards(r.cards,
         extract_from_regions([regions EXCEPT ![k].vibe_cards = r.cards],
                              theme, k + 1))

extract_from_regions(regions, theme, k) ==
  IF k > Len(regions)
  THEN [raised |-> FALSE, cards |-> <<>>, regions |-> regions]
  ELSE extract_region_step(regions, theme, k,
         extract_vibe_cards_from_region(regions[k], theme))

extract_vibe_cards_from_card(card) ==
  extract_from_regions(card.regions, card.theme, 1)

\* The source's Chinese literals and its arrow symbols are written as ASCII
\* words here; each stands for the literal the comment names.

\* the text appended to the marked context line: two spaces, a left arrow
\* and "annotation position" (parser.py 656)
PositionMark == <<" ", " ", "<", "-", " ", "p", "o", "s">>

\* the first region of the source card that has more lines than the
\* annotation's line number (parser.py 638-642), as an index, or 0
RECURSIVE FirstLongRegion(_, _, _)
FirstLongRegion(regions, line_number, k) ==
  IF k > Len(regions) THEN 0
  ELSE IF line_number < Len(regions[k].lines) THEN k
  ELSE FirstLongRegion(regions, line_number, k + 1)

Min(a, b) == IF a < b THEN a ELSE b

Max(a, b) == IF a > b THEN a ELSE b

\* the region name "context" (parser.py 663)
ContextName == <<"c", "t", "x">>

\* _create_context_region: None, or the context Region
create_context_region(vibe_card, source_card) ==
  IF vibe_card.line_number <= 0 THEN None
  ELSE LET k == FirstLongRegion(source_card.regions, vibe_card.line_number, 1)
       IN IF k = 0 THEN None
          ELSE LET src == source_card.regions[k].lines
                   start_line == Max(0, vibe_card.line_number - 2)
                   end_line == Min(Len(src), vibe_card.line_number + 3)
                   highlighted ==
                     [j \in 1..(end_line - start_line) |->
                        IF start_line + j - 1 = vibe_card.line_number
                        THEN <<">", " ">> \o src[start_line + j] \o PositionMark
                        ELSE <<" ", " ">> \o src[start_line + j]]
               IN [name |-> ContextName,
                   content |-> Join(highlighted, <<NL>>),
                   lines |-> highlighted,
                   vibe_cards |-> <<>>,
                   inline_explanations |-> <<>>]

\* the left arrow of a back-reference label (parser.py 580)
BackSymbol == <<"<", "-">>

\* the right arrow of a forward-reference label (parser.py 685)
ForwardSymbol == <<"-", ">">>

Hash == "#"

\* the region names "content", "note", "source" and the prefix "from card: "
\* (parser.py 587, 594, 600, 605)
ContentName == <<"c", "o", "n">>

NoteName == <<"n", "o", "t", "e">>

SourceName == <<"s", "r", "c">>

FromCard == <<"f", "r", "o", "m", ":", " ">>

\* str(n) for n >= 0
RECURSIVE Str(_)
Str(n) ==
  LET d == <<"0", "1", "2", "3", "4", "5", "6", "7", "8", "9">>
  IN IF n < 10 THEN <<d[n + 1]>> ELSE Str(n \div 10) \o <<d[(n % 10) + 1]>>

\* _create_main_card_from_vibe: [raised, card]
create_main_card_from_vibe(vibe_card, source_card) ==
  LET backlink_label == [symbol |-> BackSymbol,
                         content |-> <<<<Hash>> \o source_card.theme>>,
                         label_type |-> "backlink"]
      content_region == [name |-> ContentName, content |-> vibe_card.content,
                         lines |-> <<vibe_card.content>>, vibe_cards |-> <<>>,
                         inline_explanations |-> <<>>]
      annotation_region == [name |-> NoteName,
                            content |-> vibe_card.annotation,
                            lines |-> <<vibe_card.annotation>>,
                            vibe_cards |-> <<>>, inline_explanations |-> <<>>]
      source_info ==
        FromCard \o source_card.theme
        \o (IF vibe_card.line_number > 0
            THEN <<" ", "(", "L">> \o Str(vibe_card.line_number + 1) \o <<")">>
            ELSE <<>>)
      source_region == [name |-> SourceName, content |-> source_info,
                        lines |-> <<source_info>>, vibe_cards |-> <<>>,
                        inline_explanations |-> <<>>]
      context_region == create_context_region(vibe_card, source_card)
      regions == <<content_region, annotation_region, source_region>>
                 \o (IF context_region = None THEN <<>> ELSE <<context_region>>)
  IN IF ~Accepts(MainCardClass, MainCardKwargs)
     THEN [raised |-> TRUE, card |-> None]
     ELSE [raised |-> FALSE,
           card |-> [theme |-> vibe_card.content, labels |-> <<backlink_label>>,
                     regions |-> regions, vibe_cards |-> <<>>]]


\* the description of the generated archive (parser.py 520), which names
\* the number of annotations
GeneratedDescription(n) == <<"n", "=">> \o Str(n)

\* the name of the generated archive (parser.py 518)
GeneratedName == <<"v", "i", "b", "e", "s">>

\* vibe_main_cards.append(main_card) before the cards made later
ThenMainCards(m, rest) ==
  IF m.raised \/ rest.raised THEN [raised |-> TRUE, cards |-> <<>>]
  ELSE [raised |-> FALSE, cards |-> <<m.card>> \o rest.cards]

\* the main cards of the annotations vibes[k..] of one source card
\* (parser.py 511-513): [raised, cards]
RECURSIVE main_cards_from(_, _, _)
main_cards_from(vibes, source_card, k) ==
  IF k > Len(vibes) THEN [raised |-> FALSE, cards |-> <<>>]
  ELSE ThenMainCards(create_main_card_from_vibe(vibes[k], source_card),
                     main_cards_from(vibes, source_card, k + 1))

\* the collecting loop of process (parser.py 504-513) from card c of archive
\* a on; acc is [doc, all_vibe_cards, vibe_main_cards, raised]
RECURSIVE collect_vibe_cards(_, _, _)
RECURSIVE collect_card(_, _, _, _)
RECURSIVE collect_main_cards(_, _, _, _, _)
collect_main_cards(acc, a, c, card, mains) ==
  IF mains.raised
  THEN [acc EXCEPT !.doc.archives[a].cards[c] = card, !.raised = TRUE]
  ELSE collect_vibe_cards(
         [acc EXCEPT !.doc.archives[a].cards[c] = card,
                     !.all_vibe_cards = @ \o card.vibe_cards,
                     !.vibe_main_cards = @ \o mains.cards],
         a, c + 1)

\* card is the card with the vibe_cards of its regions assigned, r what
\* _extract_vibe_cards_from_card returned or raised
collect_card(acc, a, c, r) ==
  IF r.raised
  THEN [acc EXCEPT !.doc.archives[a].cards[c].regions = r.regions,
                   !.raised = TRUE]
  ELSE collect_main_cards(acc, a, c,
         [acc.doc.archives[a].cards[c] EXCEPT !.regions = r.regions,
                                              !.vibe_cards = r.cards],
         main_cards_from(r.cards,
           [acc.doc.archives[a].cards[c] EXCEPT !.regions = r.regions,
                                                !.vibe_cards = r.cards], 1))

collect_vibe_cards(acc, a, c) ==
  IF acc.raised \/ a > Len(acc.doc.archives) THEN acc
  ELSE IF c > Len(acc.doc.archives[a].cards) THEN collect_vibe_cards(acc, a + 1, 1)
  ELSE collect_card(acc, a, c,
         extract_vibe_cards_from_card(acc.doc.archives[a].cards[c]))

\* the lower-cased themes of the generated cards (parser.py 671-674), as
\* the sequence in which the set is iterated: order lists every theme a
\* run can meet, in the iteration order of this run's string hashing
VibeThemes(doc, order) ==
  IF doc.vibe_archive = None THEN <<>>
  ELSE LET themes == {Lower(doc.vibe_archive.cards[k].theme) :
                        k \in 1..Len(doc.vibe_archive.cards)}
       IN SelectSeq(order, LAMBDA t : t \in themes)

\* the first theme of themes[k..] contained in content, as an index, or 0
\* (parser.py 681-682)
RECURSIVE FirstContained(_, _, _)
FirstContained(themes, content, k) ==
  IF k > Len(themes) THEN 0
  ELSE IF Contains(Lower(content), Lower(themes[k])) THEN k
  ELSE FirstContained(themes, content, k + 1)

\* the label of parser.py 684-688 for the theme found first, if any
LinkLabel(themes, t) ==
  IF t = 0 THEN <<>>
  ELSE <<[symbol |-> ForwardSymbol, content |-> <<<<Hash>> \o themes[t]>>,
          label_type |-> "vibe_reference"]>>

\* the labels parser.py 679-690 appends to a card for its regions[k..]
RECURSIVE link_labels(_, _, _)
link_labels(regions, themes, k) ==
  IF k > Len(regions) THEN <<>>
  ELSE LinkLabel(themes, FirstContained(themes, regions[k].content, 1))
       \o link_labels(regions, themes, k + 1)

\* _add_vibe_links for the themes in iteration order
link_with(doc, themes) ==
  [doc EXCEPT !.archives =
     [a \in 1..Len(doc.archives) |->
        [doc.archives[a] EXCEPT !.cards =
           [c \in 1..Len(doc.archives[a].cards) |->
              [doc.archives[a].cards[c] EXCEPT !.labels =
                 @ \o link_labels(doc.archives[a].cards[c].regions, themes, 1)]]]]]

\* _add_vibe_links
add_vibe_links(doc, order) == link_with(doc, VibeThemes(doc, order))

\* the end of process (parser.py 515-527), acc being what the collecting
\* loop left
process_end(acc, order) ==
  IF acc.raised THEN [doc |-> acc.doc, raised |-> TRUE]
  ELSE IF acc.vibe_main_cards = <<>>
  THEN [doc |-> add_vibe_links(acc.doc, order), raised |-> FALSE]
  ELSE IF ~Accepts(VibeArchiveClass, VibeArchiveKwargs)
  THEN [doc |-> acc.doc, raised |-> TRUE]
  ELSE [doc |-> add_vibe_links(
                  [acc.doc EXCEPT !.vibe_archive =
                     [name |-> GeneratedName,
                      cards |-> acc.vibe_main_cards,
                      description |->
                        GeneratedDescription(Len(acc.all_vibe_cards))]],
                  order),
        raised |-> FALSE]

\* VibeCardProcessor.process: [doc, raised]
process(document, order) ==
  IF document.archives = <<>> THEN [doc |-> document, raised |-> FALSE]
  ELSE process_end(
         collect_vibe_cards(
           [doc |-> document, all_vibe_cards |-> <<>>,
            vibe_main_cards |-> <<>>, raised |-> FALSE], 1, 1),
         order)

(***************************************************************************)
(* RemUpCompiler's second linking pass (compiler.py 366-430).              *)
(***************************************************************************)
\* \b at the position between s[pos-1] and s[pos]
WordBoundary(s, pos) ==
  (pos > 1 /\ pos - 1 <= Len(s) /\ IsWord(s[pos - 1]))
    # (pos >= 1 /\ pos <= Len(s) /\ IsWord(s[pos]))

\* re.search(\b theme \b, content, re.IGNORECASE), from index pos on; p is
\* the next place where the theme occurs
RECURSIVE WholeWordFrom(_, _, _)
WholeWordAt(content, theme, p) ==
  IF p = 0 THEN FALSE
  ELSE IF WordBoundary(content, p) /\ WordBoundary(content, p + Len(theme))
  THEN TRUE
  ELSE WholeWordFrom(content, theme, p + 1)

WholeWordFrom(content, theme, pos) ==
  WholeWordAt(content, theme, Find(Lower(content), Lower(theme), pos))

\* _find_vibe_references: the themes, in iteration order, that occur in
\* content as whole words
find_vibe_references(content, themes) ==
  SelectSeq(themes, LAMBDA t : WholeWordFrom(content, t, 1))

\* the Label of compiler.py 410-414
ReferenceLabel(vibe_theme) ==
  [symbol |-> ForwardSymbol, content |-> <<<<Hash>> \o vibe_theme>>,
   label_type |-> "vibe_reference"]

\* compiler.py 409-416 for the references refs[k..] of one region
RECURSIVE enhance_refs(_, _, _)
enhance_refs(labels, refs, k) ==
  IF k > Len(refs) THEN labels
  ELSE enhance_refs(
         IF \E j \in 1..Len(labels) : labels[j] = ReferenceLabel(refs[k])
         THEN labels ELSE Append(labels, ReferenceLabel(refs[k])),
         refs, k + 1)

\* compiler.py 404-416 for the regions[r..] of one card
RECURSIVE enhance_regions(_, _, _, _)
enhance_regions(labels, regions, themes, r) ==
  IF r > Len(regions) THEN labels
  ELSE enhance_regions(
         enhance_refs(labels, find_vibe_references(regions[r].content, themes), 1),
         regions, themes, r + 1)

\* some region of the Document refers to one of the themes
AnyReference(doc, themes) ==
  \E a \in 1..Len(doc.archives) :
    \E c \in 1..Len(doc.archives[a].cards) :
      \E r \in 1..Len(doc.archives[a].cards[c].regions) :
        find_vibe_references(doc.archives[a].cards[c].regions[r].content,
                             themes) # <<>>

\* _enhance_vibe_links for the themes in iteration order: [doc, raised].
\* The first reference found constructs a Label with the keyword type.
enhance_with(doc, themes) ==
  IF AnyReference(doc, themes) /\ ~Accepts(LabelClass, EnhanceLabelKwargs)
  THEN [doc |-> doc, raised |-> TRUE]
  ELSE [doc |->
          [doc EXCEPT !.archives =
             [a \in 1..Len(doc.archives) |->
                [doc.archives[a] EXCEPT !.cards =
                   [c \in 1..Len(doc.archives[a].cards) |->
                      [doc.archives[a].cards[c] EXCEPT !.labels =
                         enhance_regions(@, doc.archives[a].cards[c].regions,
                                         themes, 1)]]]]],
        raised |-> FALSE]

\* _enhance_vibe_links
enhance_vibe_links(doc, order) == enhance_with(doc, VibeThemes(doc, order))

\* the second half of _process_vibe_cards, first being what process
\* returned or raised
after_process(first, order) ==
  IF first.raised THEN [doc |-> first.doc, caught |-> TRUE]
  ELSE [doc |-> enhance_vibe_links(first.doc, order).doc,
        caught |-> enhance_vibe_links(first.doc, order).raised]

\* _process_vibe_cards: process, then _enhance_vibe_links; an exception of
\* either is caught and the Document returned as it then is
process_vibe_cards(document_ast, order) ==
  after_process(process(document_ast, order), order)

(***************************************************************************)
(* RemUpParser (parser.py 29-489).  The parser state is the record         *)
(* parser: the fields of ParseState and self.archives, the objects made    *)
(* so far (archiveObjs, cardObjs, regionObjs: an object is its index, 0    *)
(* is None), the loop variable i of parse, and how the call ended.         *)
(***************************************************************************)
\* the name of the synthesized archive (parser.py 107, 208)
DefaultArchiveName == <<"d", "e", "f">>

\* the value of a card object, as the dataclass __eq__ compares it
CardValue(st, c) ==
  [theme |-> st.cardObjs[c].theme,
   labels |-> st.cardObjs[c].labels,
   regions |-> [k \in 1..Len(st.cardObjs[c].regions) |->
                  st.regionObjs[st.cardObjs[c].regions[k]]],
   vibe_cards |-> st.cardObjs[c].vibe_cards]

\* the value of an archive object, as the dataclass __eq__ compares it
ArchiveValue(st, a) ==
  [name |-> st.archiveObjs[a].name,
   cards |-> [k \in 1..Len(st.archiveObjs[a].cards) |->
                CardValue(st, st.archiveObjs[a].cards[k])],
   description |-> st.archiveObjs[a].description]

\* archive in self.archives: list membership is by identity or by ==
ArchiveInList(st, a) ==
  \E k \in 1..Len(st.archives) :
    st.archives[k] = a \/ ArchiveValue(st, st.archives[k]) = ArchiveValue(st, a)

\* an exception leaves parse through its except clause (parser.py 126-134),
\* which logs self.state.line_number and raises again
Raise(st, type) ==
  [st EXCEPT !.pc = "raised",
             !.error = [type |-> type, line |-> st.line_number]]

\* logger.warning
Warn(st, what) ==
  [st EXCEPT !.warnings = Append(@, [line |-> st.line_number, what |-> what])]

\* re.sub(^\s*#\s*, '', line)
CommentContent(line) ==
  LET rest == LStrip(line)
  IN IF rest # <<>> /\ rest[1] = "#" THEN LStrip(Tail(rest)) ELSE line

\* _extract_archive_description, the second definition of that name in the
\* class (parser.py 399-417): the comment lines that follow, joined by a
\* space
RECURSIVE archive_description(_, _, _)
archive_description(all_lines, next_line_index, description) ==
  IF next_line_index >= Len(all_lines) THEN description
  ELSE LET next_line == Strip(all_lines[next_line_index + 1])
       IN IF Pat_comment(next_line).ok
          THEN archive_description(all_lines, next_line_index + 1,
                 IF description # <<>>
                 THEN description \o <<" ">> \o CommentContent(next_line)
                 ELSE CommentContent(next_line))
          ELSE description

extract_archive_description(all_lines, current_index) ==
  archive_description(all_lines, current_index + 1, <<>>)

\* metadata[key] = value on a dict kept as a sequence of [key, value]
DictSet(d, key, value) ==
  IF \E k \in 1..Len(d) : d[k].key = key
  THEN [k \in 1..Len(d) |-> IF d[k].key = key THEN [key |-> key, value |-> value]
                             ELSE d[k]]
  ELSE Append(d, [key |-> key, value |-> value])

\* _extract_card_metadata (parser.py 419-437)
RECURSIVE card_metadata(_, _, _)
card_metadata(all_lines, next_line_index, metadata) ==
  IF next_line_index >= Len(all_lines) THEN metadata
  ELSE LET next_line == Strip(all_lines[next_line_index + 1])
           comment_content == CommentContent(next_line)
           colon == FindChar(comment_content, {":"}, 1)
       IN IF Pat_comment(next_line).ok
          THEN card_metadata(all_lines, next_line_index + 1,
                 IF colon # 0
                 THEN DictSet(metadata, Strip(Take(comment_content, colon - 1)),
                              Strip(Drop(comment_content, colon + 1)))
                 ELSE metadata)
          ELSE metadata

extract_card_metadata(all_lines, current_index) ==
  card_metadata(all_lines, current_index + 1, <<>>)

\* _determine_label_type
determine_label_type(symbol) ==
  CASE symbol = <<"!">> -> "important"
    [] symbol = <<"?">> -> "question"
    [] symbol = <<">">> -> "reference"
    [] symbol = <<"<">> -> "backlink"
    [] symbol = <<"i">> -> "info"
    [] OTHER -> "default"   \* no modelled text holds the three other symbols

\* the test of parser.py 141-143 and 97-99, and the append it guards
SaveCurrentArchive(st) ==
  IF st.current_archive # 0
     /\ st.archiveObjs[st.current_archive].cards # <<>>
     /\ ~ArchiveInList(st, st.current_archive)
  THEN [st EXCEPT !.archives = Append(@, st.current_archive)]
  ELSE st

\* _process_archive_start; _process_line looks for _process_archive and
\* never calls it
process_archive_start(st, match, all_lines, current_index) ==
  LET archive_name == Strip(match.g1)
      st1 == SaveCurrentArchive(st)
      new == Len(st1.archiveObjs) + 1
      st2 == [st1 EXCEPT
                !.archiveObjs = Append(@,
                   [name |-> archive_name, cards |-> <<>>,
                    description |->
                      extract_archive_description(all_lines, current_index)]),
                !.current_archive = new]
      st3 == IF ~ArchiveInList(st2, new)
             THEN [st2 EXCEPT !.archives = Append(@, new)]
             ELSE st2
  IN IF ~Accepts(ArchiveClass, ArchiveKwargs) THEN Raise(st1, "TypeError")
     ELSE [st3 EXCEPT !.current_card = 0, !.current_region = 0]

\* the default archive of parser.py 206-210
EnsureArchive(st) ==
  IF st.current_archive # 0 THEN st
  ELSE LET new == Len(st.archiveObjs) + 1
           st1 == [st EXCEPT
                     !.archiveObjs = Append(@,
                        [name |-> DefaultArchiveName, cards |-> <<>>,
                         description |-> <<>>]),
                     !.current_archive = new]
       IN IF ~ArchiveInList(st1, new)
          THEN [st1 EXCEPT !.archives = Append(@, new)]
          ELSE st1

\* _process_card_start
process_card_start(st, match, all_lines, current_index) ==
  LET theme == Strip(match.g1)
      st1 == EnsureArchive(st)
      new == Len(st1.cardObjs) + 1
  IN IF ~Accepts(MainCardClass, MainCardKwargs) THEN Raise(st1, "TypeError")
     ELSE [st1 EXCEPT
             !.cardObjs = Append(@,
                [theme |-> theme, labels |-> <<>>, regions |-> <<>>,
                 vibe_cards |-> <<>>,
                 metadata |-> extract_card_metadata(all_lines, current_index)]),
             !.current_card = new,
             !.archiveObjs[st1.current_archive].cards = Append(@, new),
             !.current_region = 0]

\* _process_card_end
process_card_end(st, all_lines, current_index) ==
  IF st.current_card # 0
  THEN LET st1 == IF st.cardObjs[st.current_card].regions = <<>>
                  THEN Warn(st, "card without regions") ELSE st
       IN [st1 EXCEPT !.current_card = 0, !.current_region = 0]
  ELSE st

\* _process_region_start; _process_line looks for _process_region and never
\* calls it
process_region_start(st, match, all_lines, current_index) ==
  IF st.current_card = 0 THEN Warn(st, "region outside card")
  ELSE LET region_name == Strip(match.g1)
           new == Len(st.regionObjs) + 1
       IN IF ~Accepts(RegionClass, RegionKwargs) THEN Raise(st, "TypeError")
          ELSE [st EXCEPT
                  !.regionObjs = Append(@,
                     [name |-> region_name, content |-> <<>>, lines |-> <<>>,
                      vibe_cards |-> <<>>, inline_explanations |-> <<>>]),
                  !.current_region = new,
                  !.cardObjs[st.current_card].regions = Append(@, new)]

\* _process_label
process_label(st, match, all_lines, current_index) ==
  IF st.current_card = 0 THEN Warn(st, "label outside card")
  ELSE LET symbol == match.g1
           content_text == Strip(match.g2)
           parts == Split(content_text, ",")
           content_items == [k \in 1..Len(parts) |-> Strip(parts[k])]
       IN IF ~Accepts(LabelClass, LabelKwargs) THEN Raise(st, "TypeError")
          ELSE [st EXCEPT
                  !.cardObjs[st.current_card].labels = Append(@,
                     [symbol |-> symbol, content |-> content_items,
                      label_type |-> determine_label_type(symbol)])]

\* the language of a fence without one (parser.py 300)
DefaultLanguage == <<"t", "e", "x", "t">>

\* _process_code_block_start
process_code_block_start(st, match, all_lines, current_index) ==
  [st EXCEPT !.in_code_block = TRUE,
             !.code_block_language =
                IF Strip(match.g1) = <<>> THEN DefaultLanguage ELSE Strip(match.g1),
             !.code_block_content = <<>>]

\* _process_code_block_end
process_code_block_end(st, all_lines, current_index) ==
  LET code_content == Join(st.code_block_content, <<NL>>)
      opening == Fence \o st.code_block_language
      st1 ==
        IF st.code_block_content # <<>> /\ st.current_region # 0
        THEN [st EXCEPT
                !.regionObjs[st.current_region].content =
                   IF @ # <<>>
                   THEN @ \o <<NL, NL>> \o opening \o <<NL>> \o code_content
                          \o <<NL>> \o Fence
                   ELSE opening \o <<NL>> \o code_content \o <<NL>> \o Fence,
                !.regionObjs[st.current_region].lines =
                   Append(@, opening) \o st.code_block_content \o <<Fence>>]
        ELSE st
  IN [st1 EXCEPT !.in_code_block = FALSE, !.code_block_language = <<>>,
                 !.code_block_content = <<>>]   \* None, as empty as []

\* a code-block line handler that lets a card-open line through to its
\* handler
process_code_block_line_structural(st, line, all_lines, current_index) ==
  IF Pat_code_block_end(line).ok
  THEN process_code_block_end(st, all_lines, current_index)
  ELSE IF Pat_card_start(line).ok
  THEN process_card_start(st, Pat_card_start(line), all_lines, current_index)
  ELSE [st EXCEPT !.code_block_content = Append(@, line)]

\* _process_code_block_line
process_code_block_line(st, line, all_lines, current_index) ==
  IF Pat_code_block_end(line).ok
  THEN process_code_block_end(st, all_lines, current_index)
  ELSE [st EXCEPT !.code_block_content = Append(@, line)]

\* re.sub of the annotation pattern by BT content BT, from index pos on
RECURSIVE SubVibeFrom(_, _)
SubVibeAt(text, pos, m) ==
  IF m.ok
  THEN <<Backtick>> \o Strip(m.g1) \o <<Backtick>> \o SubVibeFrom(text, m.end)
  ELSE <<text[pos]>> \o SubVibeFrom(text, pos + 1)

SubVibeFrom(text, pos) ==
  IF pos > Len(text) THEN <<>> ELSE SubVibeAt(text, pos, VibeAt(text, pos))

\* _extract_vibe_cards_from_line: the tuple (processed_line, vibe_cards), or
\* raised; re.sub calls replace_vibe, which constructs a VibeCard, for every
\* match
extract_vibe_cards_from_line(line, source_card, line_number) ==
  [raised |-> extract_vibe_cards_from_text(line, source_card, line_number).raised,
   tuple |-> <<SubVibeFrom(line, 1),
               extract_vibe_cards_from_text(line, source_card, line_number).cards>>]

\* _process_default
process_default(st, line, all_lines, current_index) ==
  IF Strip(line) = <<>> THEN st
  ELSE IF Pat_comment(line).ok THEN st
  ELSE IF st.current_region = 0 THEN st
  ELSE LET st1 == [st EXCEPT
                     !.regionObjs[st.current_region].content =
                        IF @ # <<>> THEN @ \o <<NL>> \o line ELSE line,
                     !.regionObjs[st.current_region].lines = Append(@, line)]
       IN IF st.current_card = 0 THEN Raise(st1, "AttributeError")
          ELSE LET found == extract_vibe_cards_from_line(
                              line, st.cardObjs[st.current_card].theme,
                              Len(st1.regionObjs[st.current_region].lines))
               IN IF found.raised THEN Raise(st1, "TypeError")
                  ELSE [st1 EXCEPT
                          !.regionObjs[st.current_region].vibe_cards =
                             @ \o found.tuple]

\* what _process_line does with a line: the handler it reaches
Handler(st, line) ==
  LET line_str == RStripCR(line)
      name == FirstPattern(line_str)
  IN IF st.in_code_block THEN "code_block_line"
     ELSE IF name \in PatternsWithMethod THEN name
     ELSE "default"

\* the warning of parser.py 368-369 for a pattern without a method
WarnNoMethod(st, name) ==
  IF name # "none" /\ st.verbose THEN Warn(st, "pattern without method")
  ELSE st

\* _process_line
process_line(st, line, all_lines, current_index) ==
  LET line_str == RStripCR(line)
      h == Handler(st, line)
  IN IF h = "code_block_line"
     THEN process_code_block_line(st, line_str, all_lines, current_index)
     ELSE IF h = "default"
     THEN process_default(WarnNoMethod(st, FirstPattern(line_str)), line_str,
                          all_lines, current_index)
     ELSE IF MethodArity[h] # DispatchArgs THEN Raise(st, "TypeError")
     ELSE CASE h = "card_start" ->
                 process_card_start(st, Pat_card_start(line_str), all_lines, current_index)
            [] h = "label" ->
                 process_label(st, Pat_label(line_str), all_lines, current_index)
            [] h = "code_block_start" ->
                 process_code_block_start(st, Pat_code_block_start(line_str),
                                          all_lines, current_index)

\* the Document value of the archives the parser built
DocumentOf(st) ==
  [title |-> <<>>,
   archives |-> [k \in 1..Len(st.archives) |-> ArchiveValue(st, st.archives[k])],
   vibe_archive |-> None]

\* ParseState() and self.archives = [] (parser.py 70-74), for the lines of
\* source.split('\n')
ParseStart(lines, verbose) ==
  [lines |-> lines, verbose |-> verbose, i |-> 0, pc |-> "loop", line_number |-> 0,
   archives |-> <<>>, archiveObjs |-> <<>>, cardObjs |-> <<>>,
   regionObjs |-> <<>>, current_archive |-> 0, current_card |-> 0,
   current_region |-> 0, in_code_block |-> FALSE,
   code_block_language |-> <<>>, code_block_content |-> <<>>,
   warnings |-> <<>>, error |-> None, document |-> None]

\* one iteration of the while loop of parse (parser.py 78-94)
LoopBody(st) ==
  LET st1 == [st EXCEPT !.line_number = st.i + 1]
      line == Strip(st.lines[st.i + 1])
      st2 == process_line(st1, line, st.lines, st.i)
  IN IF st2.pc = "raised" THEN st2
     ELSE IF st2.i + 1 > Len(st2.lines) * 2 THEN Raise(st2, "RuntimeError")
     ELSE [st2 EXCEPT !.i = @ + 1]

\* the default archive of parser.py 106-108
LastDefaultArchive(st) ==
  IF st.archives = <<>> /\ st.current_card # 0
  THEN [st EXCEPT
          !.archiveObjs = Append(@,
             [name |-> DefaultArchiveName, cards |-> <<st.current_card>>,
              description |-> <<>>]),
          !.archives = Append(@, Len(st.archiveObjs) + 1)]
  ELSE st

\* parser.py 113-124: the Document, and what process makes of it
ReturnDocument(st, linked) ==
  IF linked.raised THEN Raise(st, "TypeError")
  ELSE [st EXCEPT !.pc = "returned", !.document = linked.doc]

MakeDocument(st, order) ==
  IF ~Accepts(DocumentClass, DocumentKwargs) THEN Raise(st, "TypeError")
  ELSE ReturnDocument(st, process(DocumentOf(st), order))

\* the end of parse once the loop is over (parser.py 96-124)
ParseEnd(st, order) ==
  MakeDocument(LastDefaultArchive(SaveCurrentArchive(st)), order)

(***************************************************************************)
(* The source texts given to parse: up to MaxLines lines, each one of      *)
(* these.                                                                  *)
(***************************************************************************)
L_archive == <<"-", "-", "<", "A", ">", "-", "-">>

L_card == <<"<", "+", "T">>

\* a card-open line whose theme is empty after trimming
L_card_empty == <<"<", "+", " ">>

L_card_end == <<"/", "+", ">">>

\* the bare form of the card terminator
L_card_end_bare == <<"/", "+">>

L_label == <<"(", "!", ":", " ", "x", ")">>

L_region == <<"-", "-", "-", "R">>

L_text == <<"x">>

L_fence == Fence

\* an annotation: BT w BT [n]
L_vibe == <<Backtick, "w", Backtick, "[", "n", "]">>

L_comment == <<"#", " ", "c">>

L_empty == <<>>

\* a line with an inline aside
L_aside == <<"a", " ", ">", ">", "b">>

ParserCorpus ==
  {L_archive, L_card, L_card_empty, L_card_end, L_card_end_bare, L_label,
   L_region, L_text, L_fence, L_vibe, L_comment, L_empty, L_aside}

\* the sequences of 1 to n elements of S
SeqsUpTo(S, n) == UNION {[1..k -> S] : k \in 1..n}

Sources == SeqsUpTo(ParserCorpus, MaxLines)

\* the one theme an annotation of these sources can have
ParserThemes == <<<<"w">>>>

IdleLinker == [pc |-> "idle"]

IdleLexer == [pc |-> "idle"]

IdleParser == [pc |-> "idle"]

IdleServer == [pc |-> "idle"]

Init ==
  /\ parser \in {ParseStart(ls, verbose) : ls \in Sources, verbose \in BOOLEAN}
  /\ linker = IdleLinker
  /\ lexer = IdleLexer
  /\ server = IdleServer

\* the loop of parse is at a line that _process_line gives to handler h
AtLine(h) ==
  /\ parser.pc = "loop"
  /\ parser.i < Len(parser.lines)
  /\ Handler(parser, Strip(parser.lines[parser.i + 1])) = h

ParseLine(h) ==
  /\ AtLine(h)
  /\ parser' = LoopBody(parser)
  /\ UNCHANGED <<linker, lexer, server>>

CardStart == ParseLine("card_start")

CardEnd == ParseLine("card_end")

LabelLine == ParseLine("label")

CodeBlockStart == ParseLine("code_block_start")

CodeBlockLine == ParseLine("code_block_line")

DefaultLine == ParseLine("default")

Finish ==
  /\ parser.pc = "loop"
  /\ parser.i >= Len(parser.lines)
  /\ parser' = ParseEnd(parser, ParserThemes)
  /\ UNCHANGED <<linker, lexer, server>>

Next ==
  \/ CardStart
  \/ CardEnd
  \/ LabelLine
  \/ CodeBlockStart
  \/ CodeBlockLine
  \/ DefaultLine
  \/ Finish

Spec == Init /\ [][Next]_vars

(***************************************************************************)
(* Properties of RemUpParser.parse.                                        *)
(***************************************************************************)
\* the pattern of source line k, as the loop of parse sees it
LineKind(lines, k) == FirstPattern(RStripCR(Strip(lines[k])))

\* no fence among the lines before k: line k is not inside a code block
NoFenceBefore(lines, k) ==
  \A j \in 1..(k - 1) : LineKind(lines, j) # "code_block_start"

\* line k opens a card
OpensCard(lines, k) ==
  LineKind(lines, k) = "card_start" /\ NoFenceBefore(lines, k)

\* parse is over: it returned or it raised
ParseOver == parser.pc \in {"returned", "raised"}

\* the cards of the returned Document
ReturnedCards ==
  UNION {{parser.document.archives[a].cards[c] :
            c \in 1..Len(parser.document.archives[a].cards)} :
         a \in 1..Len(parser.document.archives)}

\* a card is opened, a region header follows it and a line of text or a
\* fence follows the header
FeedsRegion(lines) ==
  \E k \in 1..Len(lines) :
    /\ OpensCard(lines, k)
    /\ k + 2 <= Len(lines)
    /\ LineKind(lines, k + 1) = "region"
    /\ LineKind(lines, k + 2) \in {"none", "code_block_start", "vibe_card",
                                  "inline_explanation"}

\* C1: parse of a source that feeds text lines and code blocks into a region
\* of a card completes, and every Region of every Card of the Document then
\* has content equal to its lines joined by newline.
C1_RegionContentIsJoinedLines ==
  (ParseOver /\ FeedsRegion(parser.lines)) =>
     /\ parser.pc = "returned"
     /\ \A card \in ReturnedCards :
          \A r \in 1..Len(card.regions) :
            card.regions[r].content = Join(card.regions[r].lines, <<NL>>)

\* line k opens a card and no later line closes one
Unterminated(lines, k) ==
  /\ OpensCard(lines, k)
  /\ \A j \in (k + 1)..Len(lines) : LineKind(lines, j) # "card_end"

\* C4: when a card is opened and the input ends without a closing line,
\* parse does not raise and the returned Document contains that Card.
C4_UnterminatedCardIsReturned ==
  \A k \in 1..Len(parser.lines) :
    (ParseOver /\ Unterminated(parser.lines, k)) =>
       /\ parser.pc = "returned"
       /\ \E card \in ReturnedCards :
            card.theme = Strip(Pat_card_start(Strip(parser.lines[k])).g1)

\* the archives of the parser's list that hold the Card object c
ArchivesHolding(c) ==
  {a \in 1..Len(parser.archives) :
     \E j \in 1..Len(parser.archiveObjs[parser.archives[a]].cards) :
       parser.archiveObjs[parser.archives[a]].cards[j] = c}

\* C5: parse of a source with card-open lines returns a Document in which
\* every Card object created by a card-open line is held by exactly one
\* Archive.
C5_EveryCardInExactlyOneArchive ==
  (ParseOver /\ \E k \in 1..Len(parser.lines) : OpensCard(parser.lines, k)) =>
     /\ parser.pc = "returned"
     /\ \A c \in 1..Len(parser.cardObjs) : Cardinality(ArchivesHolding(c)) = 1

\* a card-open line whose theme is empty after trimming
EmptyThemeOpen(line) ==
  /\ StartsWith(Strip(line), <<"<", "+">>)
  /\ Strip(Drop(Strip(line), 3)) = <<>>

\* C7: when parse has met a card-open line with an empty theme, it has
\* failed with an error that carries the number of that line.
C7_EmptyThemeIsHardError ==
  \A n \in 1..Len(parser.lines) :
    (/\ ParseOver
     /\ EmptyThemeOpen(parser.lines[n])
     /\ NoFenceBefore(parser.lines, n)
     /\ parser.error.line >= n) =>
       parser.error.line = n

\* the loop of parse is at a line that matches the label pattern or the
\* region pattern first, while no card is open
OutsideCard ==
  /\ parser.pc = "loop"
  /\ parser.i < Len(parser.lines)
  /\ ~parser.in_code_block
  /\ parser.current_card = 0
  /\ LineKind(parser.lines, parser.i + 1) \in {"label", "region"}

\* C8: a label line or a region header processed while no card is open is
\* dropped with a warning: the archive list, the archives, cards and regions
\* and the current-card and current-region pointers stay as they were.
C8_OutsideCardLineIsDropped ==
  [][OutsideCard =>
       /\ parser'.pc = "loop"
       /\ Len(parser'.warnings) = Len(parser.warnings) + 1
       /\ parser'.archives = parser.archives
       /\ parser'.archiveObjs = parser.archiveObjs
       /\ parser'.cardObjs = parser.cardObjs
       /\ parser'.regionObjs = parser.regionObjs
       /\ parser'.current_archive = parser.current_archive
       /\ parser'.current_card = parser.current_card
       /\ parser'.current_region = parser.current_region]_vars

(***************************************************************************)
(* The linker on Documents built with the classes of ast_nodes.py: one     *)
(* Archive whose Cards and Regions are given by up to MaxItems items, an   *)
(* item being a Card or the one-line text of a Region of the last Card.    *)
(***************************************************************************)
T_word == <<"w">>

\* the theme inside a longer word
T_inside == <<"a", "w">>

\* two themes, the first in upper case
T_both == <<"W", " ", "v">>

T_other == <<"x">>

NewCard == <<"card">>

LinkItems == {NewCard, T_word, T_inside, T_both, T_other, L_vibe}

\* Region(name, content, lines) for a text of one line
InputRegion(text) ==
  [name |-> <<"R">>, content |-> text, lines |-> <<text>>,
   vibe_cards |-> <<>>, inline_explanations |-> <<>>]

\* MainCard(theme)
InputCard(theme) ==
  [theme |-> theme, labels |-> <<>>, regions |-> <<>>, vibe_cards |-> <<>>]

\* the Cards of items[k..], cards being those of the items before
RECURSIVE InputCards(_, _, _)
InputCards(items, k, cards) ==
  IF k > Len(items) THEN cards
  ELSE InputCards(items, k + 1,
         IF items[k] = NewCard THEN Append(cards, InputCard(<<"T">>))
         ELSE [cards EXCEPT ![Len(cards)].regions =
                 Append(@, InputRegion(items[k]))])

\* VibeArchive(name, cards) of Cards with these themes
InputVibeArchive(themes) ==
  [name |-> GeneratedName,
   cards |-> [k \in 1..Len(themes) |-> InputCard(themes[k])]]

\* the annotation archives a Document is given: none, or Cards themed w, or
\* w and v
InputVibeArchives ==
  {None, InputVibeArchive(<<<<"w">>>>), InputVibeArchive(<<<<"w">>, <<"v">>>>)}

\* Document(title, archives, vibe_archive)
InputDocument(items, vibe_archive) ==
  [title |-> <<"D">>,
   archives |-> <<[name |-> <<"A">>, cards |-> InputCards(items, 1, <<>>),
                   description |-> <<>>]>>,
   vibe_archive |-> vibe_archive]

InputDocuments ==
  {InputDocument(items, va) :
     items \in {it \in SeqsUpTo(LinkItems, MaxItems) : it[1] = NewCard},
     va \in InputVibeArchives}

\* the orders in which a set of the themes w and v can be iterated
HashOrders == {<<<<"w">>, <<"v">>>>, <<<<"v">>, <<"w">>>>}

LinkStart(doc, order) ==
  [pc |-> "ready", input |-> doc, doc |-> doc, order |-> order,
   passes |-> 0, caught |-> FALSE]

LinkInit ==
  /\ linker \in {LinkStart(doc, order) :
                   doc \in InputDocuments, order \in HashOrders}
  /\ parser = IdleParser
  /\ lexer = IdleLexer
  /\ server = IdleServer

\* what a call of process leaves: the Document, and whether it raised
AfterProcess(lk, result) ==
  [lk EXCEPT !.doc = result.doc,
             !.pc = IF result.raised THEN "raised" ELSE "ready",
             !.passes = @ + 1]

\* VibeCardProcessor().process(document), as RemUpParser.parse calls it
LinkerProcess ==
  /\ linker.pc = "ready"
  /\ linker.passes < MaxPasses
  /\ linker' = AfterProcess(linker, process(linker.doc, linker.order))
  /\ UNCHANGED <<parser, lexer, server>>

\* what _process_vibe_cards leaves: it returns the Document whatever happened
AfterCompilerPass(lk, result) ==
  [lk EXCEPT !.doc = result.doc, !.caught = result.caught,
             !.passes = @ + 1]

\* RemUpCompiler._process_vibe_cards(document_ast, config)
CompilerProcessVibeCards ==
  /\ linker.pc = "ready"
  /\ linker.passes < MaxPasses
  /\ linker' = AfterCompilerPass(linker,
                                 process_vibe_cards(linker.doc, linker.order))
  /\ UNCHANGED <<parser, lexer, server>>

LinkNext ==
  \/ LinkerProcess
  \/ CompilerProcessVibeCards

LinkSpec == LinkInit /\ [][LinkNext]_vars

\* the Cards of the linker's Document
LinkedCards ==
  UNION {{linker.doc.archives[a].cards[c] :
            c \in 1..Len(linker.doc.archives[a].cards)} :
         a \in 1..Len(linker.doc.archives)}

\* C2: after the forward-reference pass has run, once or twice, every
\* target of a forward-reference Label occurs in at most one such Label of
\* its Card.
C2_NoDuplicateForwardLabel ==
  \A card \in LinkedCards :
    \A i, j \in 1..Len(card.labels) :
      (/\ i < j
       /\ card.labels[i].symbol = ForwardSymbol
       /\ card.labels[j].symbol = ForwardSymbol)
        => card.labels[i].content # card.labels[j].content

\* the annotation spans of the linker's Document, as [card, region, text]
AnnotationSpans ==
  {sp \in [a : 1..Len(linker.doc.archives), c : 1..MaxItems, r : 1..MaxItems] :
     /\ sp.c <= Len(linker.doc.archives[sp.a].cards)
     /\ sp.r <= Len(linker.doc.archives[sp.a].cards[sp.c].regions)
     /\ VibeMatches(
          linker.doc.archives[sp.a].cards[sp.c].regions[sp.r].lines[1]) # <<>>}

\* the VibeCards the linker has put on the Cards of its Document
AllVibeCards ==
  UNION {{<<card, k>> : k \in 1..Len(card.vibe_cards)} : card \in LinkedCards}

\* a pass has run over the Document
Linked == linker.passes > 0

\* C3: once the linker has run over a Document with annotations, every
\* VibeCard it made carries an id, and of two VibeCards of a Card the one
\* found earlier has the smaller id.
C3_AnnotationIdsIncrease ==
  (Linked /\ AnnotationSpans # {}) =>
     /\ linker.pc = "ready"
     /\ ~linker.caught
     /\ AllVibeCards # {}
     /\ \A v \in AllVibeCards : "id" \in DOMAIN v[1].vibe_cards[v[2]]
     /\ \A v, w \in AllVibeCards :
          (v[1] = w[1] /\ v[2] < w[2]) =>
             v[1].vibe_cards[v[2]].id < w[1].vibe_cards[w[2]].id

\* C6: once the linker has run over a Document whose only annotation span
\* is in one region line of one Card, the Document has an annotation
\* archive of exactly one generated Card, back-linked to the theme of that
\* Card.
C6_OneAnnotationOneCard ==
  \A sp \in AnnotationSpans :
    (/\ Linked
     /\ AnnotationSpans = {sp}
     /\ linker.input.vibe_archive = None) =>
       /\ linker.pc = "ready"
       /\ ~linker.caught
       /\ linker.doc.vibe_archive # None
       /\ Len(linker.doc.vibe_archive.cards) = 1
       /\ \E k \in 1..Len(linker.doc.vibe_archive.cards[1].labels) :
            /\ linker.doc.vibe_archive.cards[1].labels[k].symbol = BackSymbol
            /\ linker.doc.vibe_archive.cards[1].labels[k].content =
                 <<<<Hash>> \o linker.doc.archives[sp.a].cards[sp.c].theme>>

\* C18: once the linker has run over a Document that came without an
\* annotation archive, the Document has an annotation archive exactly when
\* it has an annotation, and an annotation archive is never empty.
C18_VibeArchiveIffAnnotations ==
  (Linked /\ linker.input.vibe_archive = None) =>
     /\ AnnotationSpans = {} => linker.doc.vibe_archive = None
     /\ linker.doc.vibe_archive # None => linker.doc.vibe_archive.cards # <<>>
     /\ AnnotationSpans # {} => linker.doc.vibe_archive # None

\* the back-reference Labels of a Card
BackLabels(card) ==
  {k \in 1..Len(card.labels) : card.labels[k].symbol = BackSymbol}

\* C19: once the linker has run over a Document with annotations, the
\* Document has the generated annotation archive, and every Card of it has
\* exactly one back-reference Label, whose one target is the theme of a
\* Card of the Document's archives that holds an annotation.
C19_GeneratedCardHasOneBackLabel ==
  (Linked /\ linker.input.vibe_archive = None /\ AnnotationSpans # {}) =>
     /\ linker.doc.vibe_archive # None
     /\ \A g \in 1..Len(linker.doc.vibe_archive.cards) :
          /\ Cardinality(BackLabels(linker.doc.vibe_archive.cards[g])) = 1
          /\ \A k \in BackLabels(linker.doc.vibe_archive.cards[g]) :
               \E sp \in AnnotationSpans :
                 linker.doc.vibe_archive.cards[g].labels[k].content =
                   <<<<Hash>> \o linker.doc.archives[sp.a].cards[sp.c].theme>>

\* C20: the Document a linking pass leaves is the one the pass leaves under
\* every order in which the set of themes can be iterated.
C20_LinkingIgnoresSetOrder ==
  [][(linker.pc = "ready" /\ linker.passes < MaxPasses) =>
       \A order \in HashOrders :
         linker'.doc \in {process(linker.doc, order).doc,
                          process_vibe_cards(linker.doc, order).doc}]_vars

\* the themes of the annotation archive of the linker's Document
KnownThemes ==
  IF linker.doc.vibe_archive = None THEN {}
  ELSE {Lower(linker.doc.vibe_archive.cards[k].theme) :
          k \in 1..Len(linker.doc.vibe_archive.cards)}

\* the Card has a forward-reference Label whose target is the theme
HasForwardLabel(card, theme) ==
  \E k \in 1..Len(card.labels) :
    /\ card.labels[k].symbol = ForwardSymbol
    /\ card.labels[k].content = <<<<Hash>> \o theme>>

\* C22: once a linking pass has run, a Card has the forward-reference Label
\* of a known theme exactly when the theme occurs as a whole word, in any
\* case, in the content of one of its Regions.
C22_WholeWordThemesAreLinked ==
  Linked =>
    \A card \in LinkedCards :
      \A theme \in KnownThemes :
        HasForwardLabel(card, theme) <=>
          \E r \in 1..Len(card.regions) :
            WholeWordFrom(card.regions[r].content, theme, 1)

\* the line of a context Region that carries the position mark
MarkedLine(line) == <<">", " ">> \o line \o PositionMark

\* the context Region shows the line with the position mark, at most two
\* lines before it and at most two after it, all of them lines of the Region
ShowsContextOf(ctx, region, at) ==
  /\ ctx.name = ContextName
  /\ \E m \in 1..Len(ctx.lines) :
       /\ ctx.lines[m] = MarkedLine(region.lines[at])
       /\ m - 1 <= 2
       /\ Len(ctx.lines) - m <= 2
       /\ \A j \in 1..Len(ctx.lines) :
            j # m =>
              /\ at + (j - m) \in 1..Len(region.lines)
              /\ ctx.lines[j] = <<" ", " ">> \o region.lines[at + (j - m)]

\* C28: once the linker has run over a Document with annotations, each
\* annotation, those on the first line of their Region included, has a
\* generated Card with a context Region that shows the annotation's line
\* marked, between at most two lines before and two after it, taken from
\* the Region that contains the annotation.
C28_AnnotationGetsItsContext ==
  (Linked /\ linker.input.vibe_archive = None /\ AnnotationSpans # {}) =>
     /\ linker.doc.vibe_archive # None
     /\ \A sp \in AnnotationSpans :
          \E g \in 1..Len(linker.doc.vibe_archive.cards) :
            \E r \in 1..Len(linker.doc.vibe_archive.cards[g].regions) :
              ShowsContextOf(
                linker.doc.vibe_archive.cards[g].regions[r],
                linker.doc.archives[sp.a].cards[sp.c].regions[sp.r], 1)

(***************************************************************************)
(* Lexer (lexer.py 4-200).  A Lexer instance is the record                 *)
(*   [tokens, current_line_num, in_code_block, current_code_block_lang,    *)
(*    current_code_block_content],                                         *)
(* a token the record [type, value, line].  The patterns are applied to    *)
(* the line as it is, not stripped.                                        *)
(***************************************************************************)
LexPat_archive(s) == Pat_archive(s)

LexPat_card_start(s) == Pat_card_start(s)

LexPat_card_end(s) == Pat_card_end(s)

LexPat_code_block_start(s) == Pat_code_block_start(s)

LexPat_code_block_end(s) == Pat_code_block_end(s)

LexPat_empty_line(s) == Pat_empty_line(s)

\* \(([^:]+):\s*([^)]+)\), matched at the start of s
LexPat_label(s) ==
  IF ~StartsWith(s, <<"(">>) THEN NoMatch
  ELSE LET rest == Drop(s, 2)
           n == RunNotIn(rest, {":"})
           body == Drop(rest, n + 2)
           m == RunNotIn(body, {")"})
           x == Take(body, m)
       IN IF n >= 1 /\ n < Len(rest) /\ m >= 1 /\ m < Len(body)
          THEN [ok |-> TRUE, g1 |-> Take(rest, n),
                g2 |-> IF AllSpace(x) THEN <<x[m]>> ELSE LStrip(x)]
          ELSE NoMatch

\* ^---\s*([^\s].*?)\s*$
LexPat_region(s) ==
  IF StartsWith(s, <<"-", "-", "-">>) /\ LStrip(Drop(s, 4)) # <<>>
  THEN [ok |-> TRUE, g1 |-> Strip(Drop(s, 4))]
  ELSE NoMatch

\* ^\d+\.\s+(.*)$
LexPat_ordered_list(s) ==
  LET d == RunIn(s, DigitChars)
      rest == Drop(s, d + 2)
  IN IF d >= 1 /\ d < Len(s) /\ s[d + 1] = "." /\ RunIn(rest, SpaceChars) >= 1
     THEN [ok |-> TRUE, g1 |-> LStrip(rest)]
     ELSE NoMatch

\* ^-\s+(.*)$
LexPat_unordered_list(s) ==
  IF StartsWith(s, <<"-">>) /\ RunIn(Tail(s), SpaceChars) >= 1
  THEN [ok |-> TRUE, g1 |-> LStrip(Tail(s))]
  ELSE NoMatch

\* BT([^BT\n]+)BT\[([^\]]*)\] tried at index pos of s; end is the index
\* after the match
LexVibeAt(s, pos) ==
  IF pos > Len(s) \/ s[pos] # Backtick THEN NoMatch
  ELSE LET rest == Drop(s, pos + 1)
           n == RunNotIn(rest, {Backtick, NL})
           after == Drop(rest, n + 2)
           m == IF after = <<>> THEN 0 ELSE RunNotIn(Tail(after), {"]"})
       IN IF n >= 1 /\ n < Len(rest) /\ rest[n + 1] = Backtick
             /\ after # <<>> /\ after[1] = "[" /\ m + 1 < Len(after)
          THEN [ok |-> TRUE, start |-> pos, end |-> pos + n + m + 4,
                g1 |-> Take(rest, n), g2 |-> SubSeq(after, 2, m + 1)]
          ELSE NoMatch

\* PATTERNS['vibe_card'].search(s)
RECURSIVE LexVibeFrom(_, _)
LexVibeFrom(s, pos) ==
  IF pos > Len(s) THEN NoMatch
  ELSE IF LexVibeAt(s, pos).ok THEN LexVibeAt(s, pos)
  ELSE LexVibeFrom(s, pos + 1)

LexSearch_vibe_card(s) == LexVibeFrom(s, 1)

\* >>\s*([^\n]+?)\s*$ matched at index p of s, 0 standing for no place
LexExplanationAt(s, p) ==
  IF p = 0 \/ p + 2 > Len(s) THEN NoMatch
  ELSE [ok |-> TRUE, start |-> p, end |-> Len(s) + 1,
        g1 |-> IF AllSpace(Drop(s, p + 2)) THEN <<s[Len(s)]>>
               ELSE Strip(Drop(s, p + 2))]

\* PATTERNS['inline_explanation'].search(s)
LexSearch_inline_explanation(s) ==
  LexExplanationAt(s, Find(s, <<">", ">">>, 1))

\* \*\*(.*?)\*\* with the opening stars at index p and the closing at q
LexBoldAt(s, p, q) ==
  IF p = 0 \/ q = 0 THEN NoMatch
  ELSE [ok |-> TRUE, start |-> p, end |-> q + 2, g1 |-> SubSeq(s, p + 2, q - 1)]

LexBoldFrom(s, p) ==
  LexBoldAt(s, p, IF p = 0 THEN 0 ELSE Find(s, <<"*", "*">>, p + 2))

\* PATTERNS['bold_text'].search(s)
LexSearch_bold_text(s) == LexBoldFrom(s, Find(s, <<"*", "*">>, 1))

\* Lexer.__init__
LexerNew ==
  [tokens |-> <<>>, current_line_num |-> 0, in_code_block |-> FALSE,
   current_code_block_lang |-> <<>>, current_code_block_content |-> <<>>]

\* self.tokens.append((type, value, self.current_line_num))
Emit(lx, type, value) ==
  [lx EXCEPT !.tokens =
     Append(@, [type |-> type, value |-> value, line |-> lx.current_line_num])]

\* the TEXT token of the text before a match, if any is left after strip
EmitBefore(lx, remaining, m) ==
  IF Strip(Take(remaining, m.start - 1)) = <<>> THEN lx
  ELSE Emit(lx, "TEXT", Strip(Take(remaining, m.start - 1)))

\* _process_line_content, from the while loop on: remaining is stripped
RECURSIVE line_content(_, _)
\* a scan that takes the aside to end after its marker and goes on with
\* the text that follows the marker
line_content_step_short_aside(lx, remaining, vibe, explanation, bold) ==
  IF vibe.ok
  THEN line_content(
         Emit(EmitBefore(lx, remaining, vibe), "VIBE_CARD",
              vibe.g1 \o <<"[">> \o vibe.g2 \o <<"]">>),
         Strip(Drop(remaining, vibe.end)))
  ELSE IF explanation.ok
  THEN line_content(
         Emit(EmitBefore(lx, remaining, explanation), "INLINE_EXPLANATION",
              explanation.g1),
         Strip(Drop(remaining, explanation.start + 2)))
  ELSE IF bold.ok
  THEN line_content(
         Emit(EmitBefore(lx, remaining, bold), "BOLD_TEXT", bold.g1),
         Strip(Drop(remaining, bold.end)))
  ELSE Emit(lx, "TEXT", remaining)

line_content_step(lx, remaining, vibe, explanation, bold) ==
  IF vibe.ok
  THEN line_content(
         Emit(EmitBefore(lx, remaining, vibe), "VIBE_CARD",
              vibe.g1 \o <<"[">> \o vibe.g2 \o <<"]">>),
         Strip(Drop(remaining, vibe.end)))
  ELSE IF explanation.ok
  THEN line_content(
         Emit(EmitBefore(lx, remaining, explanation), "INLINE_EXPLANATION",
              explanation.g1),
         Strip(Drop(remaining, explanation.end)))
  ELSE IF bold.ok
  THEN line_content(
         Emit(EmitBefore(lx, remaining, bold), "BOLD_TEXT", bold.g1),
         Strip(Drop(remaining, bold.end)))
  ELSE Emit(lx, "TEXT", remaining)

line_content(lx, remaining) ==
  IF remaining = <<>> THEN lx
  ELSE line_content_step(lx, remaining, LexSearch_vibe_card(remaining),
                         LexSearch_inline_explanation(remaining),
                         LexSearch_bold_text(remaining))

\* _process_line_content
lex_process_line_content(lx, content) == line_content(lx, Strip(content))

\* the value of a LABEL token (lexer.py 119-121)
LabelValue(m) ==
  Strip(m.g1) \o <<":">>
  \o Join([k \in 1..Len(Split(m.g2, ",")) |-> Strip(Split(m.g2, ",")[k])],
          <<",">>)

\* lexer.py 128-138, ordered_match and unordered_match being the matches
list_item(lx, ordered_match, unordered_match) ==
  IF ordered_match.ok
  THEN lex_process_line_content(Emit(lx, "ORDERED_LIST_ITEM", <<>>),
                                ordered_match.g1)
  ELSE lex_process_line_content(Emit(lx, "UNORDERED_LIST_ITEM", <<>>),
                                unordered_match.g1)

\* _process_inline_elements
lex_process_inline_elements(lx, line) ==
  IF LexPat_label(line).ok THEN Emit(lx, "LABEL", LabelValue(LexPat_label(line)))
  ELSE IF LexPat_ordered_list(line).ok \/ LexPat_unordered_list(line).ok
  THEN list_item(lx, LexPat_ordered_list(line), LexPat_unordered_list(line))
  ELSE lex_process_line_content(lx, line)

\* a closing fence that numbers the content token two lines too early
close_code_block_early(lx) ==
  [(IF lx.current_code_block_content # <<>>
    THEN [lx EXCEPT !.tokens = Append(@,
            [type |-> "CODE_BLOCK_CONTENT",
             value |-> Join(lx.current_code_block_content, <<NL>>),
             line |-> lx.current_line_num
                      - Len(lx.current_code_block_content) - 2])]
    ELSE lx)
   EXCEPT !.tokens = Append(@, [type |-> "CODE_BLOCK_END", value |-> <<>>,
                                line |-> lx.current_line_num]),
          !.in_code_block = FALSE,
          !.current_code_block_content = <<>>]

\* lexer.py 60-67: the closing fence
close_code_block(lx) ==
  [(IF lx.current_code_block_content # <<>>
    THEN [lx EXCEPT !.tokens = Append(@,
            [type |-> "CODE_BLOCK_CONTENT",
             value |-> Join(lx.current_code_block_content, <<NL>>),
             line |-> lx.current_line_num - Len(lx.current_code_block_content)])]
    ELSE lx)
   EXCEPT !.tokens = Append(@, [type |-> "CODE_BLOCK_END", value |-> <<>>,
                                line |-> lx.current_line_num]),
          !.in_code_block = FALSE,
          !.current_code_block_content = <<>>]

\* a collecting branch that trims the line it keeps
collect_code_line_stripped(lx, line) ==
  [lx EXCEPT !.current_code_block_content = Append(@, Strip(line))]

\* lexer.py 68-70: a line inside a code block
collect_code_line(lx, line) ==
  [lx EXCEPT !.current_code_block_content = Append(@, line)]

\* lexer.py 80-85: the opening fence
open_code_block(lx, language) ==
  [Emit(lx, "CODE_BLOCK_START", language)
   EXCEPT !.in_code_block = TRUE,
          !.current_code_block_lang = language,
          !.current_code_block_content = <<>>]

\* Lexer._process_line
lex_process_line(lx, line) ==
  IF lx.in_code_block
  THEN IF LexPat_code_block_end(line).ok THEN close_code_block(lx)
       ELSE collect_code_line(lx, line)
  ELSE IF LexPat_empty_line(line).ok THEN Emit(lx, "EMPTY_LINE", <<>>)
  ELSE IF LexPat_code_block_start(line).ok
  THEN open_code_block(lx, LexPat_code_block_start(line).g1)
  ELSE IF LexPat_archive(line).ok THEN Emit(lx, "ARCHIVE", LexPat_archive(line).g1)
  ELSE IF LexPat_card_start(line).ok
  THEN Emit(lx, "CARD_START", LexPat_card_start(line).g1)
  ELSE IF LexPat_card_end(line).ok THEN Emit(lx, "CARD_END", <<>>)
  ELSE IF LexPat_region(line).ok THEN Emit(lx, "REGION", LexPat_region(line).g1)
  ELSE lex_process_inline_elements(lx, line)

\* a tokenize that leaves in_code_block as the call before left it
tokenize_reset_partial(lx) ==
  [lx EXCEPT !.tokens = <<>>, !.current_line_num = 0]

\* lexer.py 43-45
tokenize_reset(lx) ==
  [lx EXCEPT !.tokens = <<>>, !.current_line_num = 0, !.in_code_block = FALSE]

\* the loop of tokenize over lines[k..]
RECURSIVE tokenize_lines(_, _, _)
tokenize_lines(lx, lines, k) ==
  IF k > Len(lines) THEN lx
  ELSE tokenize_lines(
         lex_process_line([lx EXCEPT !.current_line_num = @ + 1], lines[k]),
         lines, k + 1)

\* Lexer.tokenize, for the lines of text.split('\n'): the instance after
\* the call, whose tokens are what the call returns
tokenize(lx, lines) == tokenize_lines(tokenize_reset(lx), lines, 1)

(***************************************************************************)
(* Calls of Lexer.tokenize.  lexer is [pc, lines, calls, lx]: the lines of *)
(* the text of the last call, the number of calls made and the instance.   *)
(***************************************************************************)
\* a fence that names a language
L_fence_py == Fence \o <<"p", "y">>

L_unordered == <<"-", " ", "y">>

L_ordered == <<"1", ".", " ", "y">>

\* text with leading white space
L_indented == <<" ", "x">>

LexCorpus ==
  {L_fence, L_fence_py, L_archive, L_card, L_card_end, L_region, L_label,
   L_unordered, L_ordered, L_vibe, L_text, L_empty, L_indented}

\* the texts given to a fresh Lexer
LexTexts == SeqsUpTo(LexCorpus, MaxLexLines)

\* the texts given to a Lexer that is used again
ReuseTexts == SeqsUpTo({L_fence, L_text, L_label}, MaxReuseLines)

LexInit ==
  /\ lexer = [pc |-> "ready", lines |-> <<>>, calls |-> 0, lx |-> LexerNew]
  /\ parser = IdleParser
  /\ linker = IdleLinker
  /\ server = IdleServer

\* lexer.tokenize(text) for a text of texts
Tokenize(texts) ==
  /\ \E lines \in texts :
       lexer' = [pc |-> "returned", lines |-> lines,
                 calls |-> lexer.calls + 1,
                 lx |-> tokenize(lexer.lx, lines)]
  /\ UNCHANGED <<parser, linker, server>>

\* the one call made on a fresh Lexer
TokenizeFresh ==
  /\ lexer.calls = 0
  /\ Tokenize(LexTexts)

LexNext == TokenizeFresh

LexSpec == LexInit /\ [][LexNext]_vars

\* a call on a Lexer, fresh or used before
TokenizeAgain ==
  /\ lexer.calls < MaxCalls
  /\ Tokenize(ReuseTexts)

LexReuseNext == TokenizeAgain

LexReuseSpec == LexInit /\ [][LexReuseNext]_vars

\* line k of the text lies inside a fenced code block: a fence opened a
\* block before it and no closing fence has ended that block
RECURSIVE Inside(_, _)
Inside(lines, k) ==
  IF k <= 1 THEN FALSE
  ELSE IF Inside(lines, k - 1)
  THEN ~LexPat_code_block_end(lines[k - 1]).ok
  ELSE LexPat_code_block_start(lines[k - 1]).ok

\* the fenced blocks of the text that are closed, as <<opening, closing>>
ClosedBlocks(lines) ==
  {b \in (1..Len(lines)) \X (1..Len(lines)) :
     /\ b[1] < b[2]
     /\ ~Inside(lines, b[1])
     /\ LexPat_code_block_start(lines[b[1]]).ok
     /\ LexPat_code_block_end(lines[b[2]]).ok
     /\ \A j \in (b[1] + 1)..(b[2] - 1) : ~LexPat_code_block_end(lines[j]).ok}

\* the CODE_BLOCK_CONTENT token of a closed block with a body
PayloadOf(lines, b) ==
  [type |-> "CODE_BLOCK_CONTENT",
   value |-> Join(SubSeq(lines, b[1] + 1, b[2] - 1), <<NL>>),
   line |-> b[1] + 1]

\* the positions of the CODE_BLOCK_CONTENT tokens
ContentTokens ==
  {i \in 1..Len(lexer.lx.tokens) : lexer.lx.tokens[i].type = "CODE_BLOCK_CONTENT"}

\* C9: no token other than the content and the end of a code block comes
\* from a line inside a fenced code block, and the CODE_BLOCK_CONTENT
\* tokens are, one per closed block with a body, the enclosed lines joined
\* by newline.
C9_CodeBlockIsOpaque ==
  lexer.pc = "returned" =>
    /\ \A i \in 1..Len(lexer.lx.tokens) :
         Inside(lexer.lines, lexer.lx.tokens[i].line) =>
           lexer.lx.tokens[i].type \in {"CODE_BLOCK_CONTENT", "CODE_BLOCK_END"}
    /\ {lexer.lx.tokens[i] : i \in ContentTokens} =
         {PayloadOf(lexer.lines, b) :
            b \in {c \in ClosedBlocks(lexer.lines) : c[2] > c[1] + 1}}
    /\ \A i, j \in ContentTokens :
         i # j => lexer.lx.tokens[i].line # lexer.lx.tokens[j].line

\* a block whose body is a label line was tokenized
C9_Witness ==
  /\ lexer.pc = "returned"
  /\ lexer.lines = <<L_fence, L_label, L_fence>>
  /\ lexer.lx.tokens =
       <<[type |-> "CODE_BLOCK_START", value |-> <<>>, line |-> 1],
         [type |-> "CODE_BLOCK_CONTENT", value |-> L_label, line |-> 2],
         [type |-> "CODE_BLOCK_END", value |-> <<>>, line |-> 3]>>

\* C10: the tokens a call returns are those a fresh Lexer returns for the
\* same text, whatever the calls before left in the instance.
C10_TokenizeIsDeterministic ==
  lexer.pc = "returned" =>
    lexer.lx.tokens = tokenize(LexerNew, lexer.lines).tokens

\* a second call returned tokens on an instance whose first call had ended
\* inside a code block with lines collected
C10_Witness ==
  /\ lexer.pc = "returned"
  /\ lexer.calls = 2
  /\ ~lexer.lx.in_code_block
  /\ lexer.lx.current_code_block_content # <<>>
  /\ lexer.lx.tokens # <<>>

\* the lines of the returned tokens
TokenLines == {lexer.lx.tokens[i].line : i \in 1..Len(lexer.lx.tokens)}

\* line k is a body line of a closed block whose payload was emitted
CarriedInPayload(lines, k) ==
  \E b \in ClosedBlocks(lines) :
    /\ b[1] < k
    /\ k < b[2]
    /\ \E i \in ContentTokens : lexer.lx.tokens[i] = PayloadOf(lines, b)

\* the line matches none of the patterns of Lexer.PATTERNS, structural or
\* inline
PlainText(line) ==
  /\ ~LexPat_empty_line(line).ok
  /\ ~LexPat_code_block_start(line).ok
  /\ ~LexPat_archive(line).ok
  /\ ~LexPat_card_start(line).ok
  /\ ~LexPat_card_end(line).ok
  /\ ~LexPat_region(line).ok
  /\ ~LexPat_label(line).ok
  /\ ~LexPat_ordered_list(line).ok
  /\ ~LexPat_unordered_list(line).ok
  /\ ~LexSearch_vibe_card(line).ok
  /\ ~LexSearch_inline_explanation(line).ok
  /\ ~LexSearch_bold_text(line).ok

\* C11: every line of the text gives a token of its own or is carried in
\* the payload of a CODE_BLOCK_CONTENT token; outside a code block a line
\* of white space gives EMPTY_LINE and a line matching no pattern gives a
\* TEXT token with the number of the line.
C11_EveryLineIsConsumed ==
  lexer.pc = "returned" =>
    \A k \in 1..Len(lexer.lines) :
      /\ k \in TokenLines \/ CarriedInPayload(lexer.lines, k)
      /\ (~Inside(lexer.lines, k) /\ LexPat_empty_line(lexer.lines[k]).ok) =>
           [type |-> "EMPTY_LINE", value |-> <<>>, line |-> k]
             \in {lexer.lx.tokens[i] : i \in 1..Len(lexer.lx.tokens)}
      /\ (~Inside(lexer.lines, k) /\ PlainText(lexer.lines[k])) =>
           \E i \in 1..Len(lexer.lx.tokens) :
             /\ lexer.lx.tokens[i].type = "TEXT"
             /\ lexer.lx.tokens[i].line = k

\* the text ends inside a fenced code block, lines from..Len(lines) being
\* the body collected since the opening fence
OpenAtEnd(lines, from) ==
  /\ from \in 2..Len(lines)
  /\ ~Inside(lines, from - 1)
  /\ LexPat_code_block_start(lines[from - 1]).ok
  /\ \A j \in from..Len(lines) : ~LexPat_code_block_end(lines[j]).ok

\* C12: when the text ends inside a code block with body lines, the last
\* token returned is a CODE_BLOCK_CONTENT token holding the body, and no
\* CODE_BLOCK_END token follows the opening fence.
C12_UnclosedBlockIsFlushed ==
  lexer.pc = "returned" =>
    \A from \in 2..Len(lexer.lines) :
      OpenAtEnd(lexer.lines, from) =>
        /\ lexer.lx.tokens # <<>>
        /\ lexer.lx.tokens[Len(lexer.lx.tokens)].type = "CODE_BLOCK_CONTENT"
        /\ lexer.lx.tokens[Len(lexer.lx.tokens)].value =
             Join(SubSeq(lexer.lines, from, Len(lexer.lines)), <<NL>>)

\* C13: the line numbers of the returned tokens are at least 1 and never
\* decrease from a token to the next.
C13_TokenLinesNeverDecrease ==
  lexer.pc = "returned" =>
    /\ \A i \in 1..Len(lexer.lx.tokens) : lexer.lx.tokens[i].line >= 1
    /\ \A i \in 1..(Len(lexer.lx.tokens) - 1) :
         lexer.lx.tokens[i].line <= lexer.lx.tokens[i + 1].line

\* a block opened on line 1 with a body of one line was closed, the
\* content token being numbered from the closing fence
C13_Witness ==
  /\ lexer.pc = "returned"
  /\ lexer.lines = <<L_fence_py, L_text, L_fence>>
  /\ Len(lexer.lx.tokens) = 3
  /\ lexer.lx.tokens[2].type = "CODE_BLOCK_CONTENT"
  /\ lexer.lx.tokens[2].line = 2

\* C25: for every fenced block of the text that is closed, also one without
\* body lines, the CODE_BLOCK_START token of its opening fence is followed
\* at once by one CODE_BLOCK_CONTENT token holding the body and then by the
\* CODE_BLOCK_END token of its closing fence.
C25_ClosedBlockGivesContentThenEnd ==
  lexer.pc = "returned" =>
    \A b \in ClosedBlocks(lexer.lines) :
      \E i \in 1..(Len(lexer.lx.tokens) - 2) :
        /\ lexer.lx.tokens[i].type = "CODE_BLOCK_START"
        /\ lexer.lx.tokens[i].line = b[1]
        /\ lexer.lx.tokens[i + 1].type = "CODE_BLOCK_CONTENT"
        /\ lexer.lx.tokens[i + 1].value =
             Join(SubSeq(lexer.lines, b[1] + 1, b[2] - 1), <<NL>>)
        /\ lexer.lx.tokens[i + 2] =
             [type |-> "CODE_BLOCK_END", value |-> <<>>, line |-> b[2]]

(***************************************************************************)
(* Steps of RemUpParser.parse at card terminators, archive headers and     *)
(* card-open lines, and what Lexer.tokenize makes of a terminator.         *)
(***************************************************************************)
\* the loop of parse is at a line outside a code block
AtSourceLine ==
  /\ parser.pc = "loop"
  /\ parser.i < Len(parser.lines)
  /\ ~parser.in_code_block

\* the line the loop of parse is at
CurrentLine == parser.lines[parser.i + 1]

\* the loop of parse is at a card terminator, in one of its two forms
AtTerminator ==
  /\ AtSourceLine
  /\ Strip(CurrentLine) \in {L_card_end, L_card_end_bare}

\* C14: a line that is a card terminator, in the form with or without the
\* closing bracket, is a CARD_END token for the tokenizer, and the parser
\* gets past it without an error and then has no card and no region open.
C14_CardTerminatorClosesCard ==
  [][AtTerminator =>
       /\ tokenize(LexerNew, <<CurrentLine>>).tokens =
            <<[type |-> "CARD_END", value |-> <<>>, line |-> 1]>>
       /\ parser'.pc = "loop"
       /\ parser'.current_card = 0
       /\ parser'.current_region = 0]_vars

\* the loop of parse is at an archive header
AtArchiveHeader ==
  /\ AtSourceLine
  /\ LineKind(parser.lines, parser.i + 1) = "archive"

\* C15: an archive header closes the open card and region and appends a new
\* Archive with the name of the header to the archive list at once.
C15_ArchiveHeaderAppendsArchive ==
  [][AtArchiveHeader =>
       /\ parser'.pc = "loop"
       /\ Len(parser'.archives) = Len(parser.archives) + 1
       /\ SubSeq(parser'.archives, 1, Len(parser.archives)) = parser.archives
       /\ parser'.archiveObjs[parser'.archives[Len(parser'.archives)]].name =
            Strip(Pat_archive(Strip(CurrentLine)).g1)
       /\ parser'.current_card = 0
       /\ parser'.current_region = 0]_vars

\* the loop of parse is at a card-open line and no archive was opened
AtFirstCardOpen ==
  /\ AtSourceLine
  /\ LineKind(parser.lines, parser.i + 1) = "card_start"
  /\ parser.current_archive = 0

\* the archives of the list that carry the default name
DefaultArchives(st) ==
  {a \in 1..Len(st.archives) :
     st.archiveObjs[st.archives[a]].name = DefaultArchiveName}

\* C16: a card-open line met while no archive is open adds a default
\* archive to the archive list and appends the new card to it, and the
\* list never holds more than one default archive.
C16_DefaultArchiveHoldsCard ==
  [][AtFirstCardOpen =>
       /\ parser'.pc = "loop"
       /\ parser'.current_archive # 0
       /\ Cardinality(DefaultArchives(parser')) = 1
       /\ parser'.archives[Len(parser'.archives)] = parser'.current_archive
       /\ parser'.current_card # 0
       /\ parser'.archiveObjs[parser'.current_archive].cards =
            <<parser'.current_card>>]_vars

\* C17: parse of a source without an empty card theme returns a Document
\* and does not raise.
C17_ParseNeverRaises ==
  (/\ ParseOver
   /\ \A k \in 1..Len(parser.lines) : ~EmptyThemeOpen(parser.lines[k])) =>
     /\ parser.pc = "returned"
     /\ parser.error = None
     /\ parser.document # None

\* line k opens a card, line k + 1 is a region header and line k + 2 is a
\* line of text
RegionWithText(lines, k) ==
  /\ OpensCard(lines, k)
  /\ k + 2 <= Len(lines)
  /\ LineKind(lines, k + 1) = "region"
  /\ LineKind(lines, k + 2) \in {"none", "vibe_card", "inline_explanation"}

\* C21: a region header met while a card is open gives that card a new
\* Region with the name of the header, and the text line that follows is
\* the first of the lines and of the content of that Region.
C21_RegionHeaderOpensRegion ==
  \A k \in 1..Len(parser.lines) :
    (ParseOver /\ RegionWithText(parser.lines, k)) =>
       /\ parser.pc = "returned"
       /\ \E card \in ReturnedCards :
            \E r \in 1..Len(card.regions) :
              /\ card.regions[r].name =
                   Strip(Pat_region(Strip(parser.lines[k + 1])).g1)
              /\ card.regions[r].lines # <<>>
              /\ card.regions[r].lines[1] = Strip(parser.lines[k + 2])
              /\ card.regions[r].content = Strip(parser.lines[k + 2])

\* the search of PATTERNS['inline_explanation'] finds an aside in the line
HasAside(line) == \E p \in 1..Len(line) : ExplanationAt(line, p).ok

\* line k opens a card, line k + 1 is a region header and line k + 2 is a
\* line of text with an inline aside
AsideInRegion(lines, k) ==
  /\ OpensCard(lines, k)
  /\ k + 2 <= Len(lines)
  /\ LineKind(lines, k + 1) = "region"
  /\ LineKind(lines, k + 2) \in {"none", "vibe_card", "inline_explanation"}
  /\ HasAside(Strip(lines[k + 2]))

\* C23: when a text line with an inline aside was appended to a region, the
\* Region of the returned Document holds that line and has one entry in its
\* inline_explanations for it.
C23_AsideIsRecorded ==
  \A k \in 1..Len(parser.lines) :
    (ParseOver /\ AsideInRegion(parser.lines, k)) =>
       /\ parser.pc = "returned"
       /\ \E card \in ReturnedCards :
            \E r \in 1..Len(card.regions) :
              /\ card.regions[r].lines = <<Strip(parser.lines[k + 2])>>
              /\ Len(card.regions[r].inline_explanations) = 1

(***************************************************************************)
(* Calls of Lexer._process_line_content on one line made of up to          *)
(* MaxPieces inline pieces.                                                *)
(***************************************************************************)
P_text == <<"x">>

P_aside == <<">", ">", "e">>

P_bold == <<"*", "*", "b", "*", "*">>

P_space == <<" ">>

LinePieces == {P_text, L_vibe, P_aside, P_bold, P_space}

\* the pieces ps[k..] one after the other
RECURSIVE Concat(_, _)
Concat(ps, k) == IF k > Len(ps) THEN <<>> ELSE ps[k] \o Concat(ps, k + 1)

LineContents == {Concat(ps, 1) : ps \in SeqsUpTo(LinePieces, MaxPieces)}

LineInit ==
  /\ lexer = [pc |-> "ready", lines |-> <<>>, calls |-> 0, lx |-> LexerNew]
  /\ parser = IdleParser
  /\ linker = IdleLinker
  /\ server = IdleServer

\* self._process_line_content(content) on a Lexer that is at line 1
ScanLine ==
  /\ lexer.pc = "ready"
  /\ \E content \in LineContents :
       lexer' = [pc |-> "scanned", lines |-> <<content>>, calls |-> 1,
                 lx |-> lex_process_line_content(
                          [LexerNew EXCEPT !.current_line_num = 1], content)]
  /\ UNCHANGED <<parser, linker, server>>

LineNext == ScanLine

LineSpec == LineInit /\ [][LineNext]_vars

\* the source texts a token can come from
SourceForms(token) ==
  CASE token.type = "VIBE_CARD" ->
         {<<Backtick>> \o Take(token.value, i - 1) \o <<Backtick>>
            \o Drop(token.value, i) :
          i \in {j \in 1..Len(token.value) : token.value[j] = "["}}
    [] token.type = "BOLD_TEXT" ->
         {<<"*", "*">> \o token.value \o <<"*", "*">>}
    [] OTHER -> {token.value}

\* the ends of the first occurrences, from index pos on, of the forms
EndsFrom(content, forms, pos) ==
  {Find(content, f, pos) + Len(f) :
     f \in {g \in forms : Find(content, g, pos) # 0}}

\* the least element of a set of numbers
Least(S) == CHOOSE m \in S : \A n \in S : m <= n

\* tokens[k..] come from places of content[pos..] that follow one another
RECURSIVE InSourceOrder(_, _, _, _)
InSourceOrder(tokens, content, k, pos) ==
  IF k > Len(tokens) THEN TRUE
  ELSE /\ EndsFrom(content, SourceForms(tokens[k]), pos) # {}
       /\ InSourceOrder(tokens, content, k + 1,
            Least(EndsFrom(content, SourceForms(tokens[k]), pos)))

\* C24: the tokens of one scanned line come from places of the line that
\* follow one another from left to right, and an INLINE_EXPLANATION token
\* is the last token of the line: every VIBE_CARD token precedes it, there
\* is one at most and nothing follows it.
C24_LineTokensInSourceOrder ==
  lexer.pc = "scanned" =>
    /\ InSourceOrder(lexer.lx.tokens, lexer.lines[1], 1, 1)
    /\ \A i \in 1..Len(lexer.lx.tokens) :
         lexer.lx.tokens[i].type = "INLINE_EXPLANATION" =>
           i = Len(lexer.lx.tokens)

\* a line of text, an annotation and an aside was scanned
C24_Witness ==
  /\ lexer.pc = "scanned"
  /\ lexer.lines = <<P_text \o L_vibe \o P_aside>>
  /\ Len(lexer.lx.tokens) = 3
  /\ lexer.lx.tokens[1].type = "TEXT"
  /\ lexer.lx.tokens[2].type = "VIBE_CARD"
  /\ lexer.lx.tokens[3] =
       [type |-> "INLINE_EXPLANATION", value |-> <<"e">>, line |-> 1]

\* C26: every iteration of the loop of parse processes the line at the
\* position, moves the position one line on and leaves the loop running, so
\* the loop ends after one iteration for each line and the guard against a
\* runaway loop never fires.
C26_LoopAdvancesOverEveryLine ==
  [][(parser.pc = "loop" /\ parser.i < Len(parser.lines)) =>
       /\ parser'.pc = "loop"
       /\ parser'.line_number = parser.i + 1
       /\ parser'.i = parser.i + 1
       /\ parser'.i <= Len(parser.lines)]_vars

\* the loop of parse is at a line between an opening fence and its closing
\* fence, these two included
AtCodeBlockLine ==
  /\ parser.pc = "loop"
  /\ parser.i < Len(parser.lines)
  /\ \/ parser.in_code_block
     \/ LineKind(parser.lines, parser.i + 1) = "code_block_start"

\* the line the loop of parse is at, as _process_line hands it on
CurrentLineStr == RStripCR(Strip(parser.lines[parser.i + 1]))

\* the loop of parse is at the closing fence of the open block
AtClosingFence ==
  parser.in_code_block /\ Pat_code_block_end(CurrentLineStr).ok

AwaitOutcomes == {"ok", "raised", "cancelled"}

\* how compile_remup(...) followed by inject_websocket_client(...) ends
\* (websocket_preview.py 168-175)
CompileOutcomes == {"returned", "raised"}

\* WebSocketPreviewServer.__init__ and FileChangeHandler.__init__
ServerNew ==
  [pc |-> "running", compile_in_progress |-> FALSE, last_modified |-> 0,
   compile_calls |-> 0, tasks |-> [t \in 1..MaxTasks |-> "new"]]

\* the invocations not made yet
FreeTasks(sv) == {t \in 1..MaxTasks : sv.tasks[t] = "new"}

\* compile_and_notify with the guard left out
compile_and_notify_unguarded(sv, t) ==
  [sv EXCEPT !.compile_in_progress = TRUE, !.tasks[t] = "compile_start"]

\* compile_and_notify up to its first await: the guard and the setting of
\* the flag (websocket_preview.py 146-162)
compile_and_notify(sv, t) ==
  IF sv.compile_in_progress
  THEN [sv EXCEPT !.tasks[t] = "skipped"]
  ELSE [sv EXCEPT !.compile_in_progress = TRUE, !.tasks[t] = "compile_start"]

\* the finally clause of compile_and_notify, and how the invocation ended
compile_finally(sv, t, how) ==
  [sv EXCEPT !.compile_in_progress = FALSE, !.tasks[t] = how]

\* what follows an await of the last broadcast of an invocation
compile_end(sv, t, o) ==
  compile_finally(sv, t, IF o = "cancelled" THEN "cancelled" ELSE "finished")

ServerInit ==
  /\ server = ServerNew
  /\ parser = IdleParser
  /\ linker = IdleLinker
  /\ lexer = IdleLexer

\* FileChangeHandler.on_modified(event): events for other paths and events
\* within the debounce interval of the last accepted one are dropped
OnModified ==
  /\ server.pc = "running"
  /\ FreeTasks(server) # {}
  /\ \E watched \in BOOLEAN, quick \in BOOLEAN :
       IF ~watched \/ (quick /\ server.last_modified # 0)
       THEN server' = server
       ELSE server' = [server EXCEPT !.last_modified = 1,
                                     !.tasks[Least(FreeTasks(server))] =
                                       "sleeping"]
  /\ UNCHANGED <<parser, linker, lexer>>

\* FileChangeHandler.handle_file_change() after its sleep
HandleFileChange ==
  /\ server.pc = "running"
  /\ \E t \in 1..MaxTasks :
       /\ server.tasks[t] = "sleeping"
       /\ server' = compile_and_notify(server, t)
  /\ UNCHANGED <<parser, linker, lexer>>

\* handle_message(websocket, {'type': 'compile_request'})
CompileRequest ==
  /\ server.pc = "running"
  /\ FreeTasks(server) # {}
  /\ server' = compile_and_notify(server, Least(FreeTasks(server)))
  /\ UNCHANGED <<parser, linker, lexer>>

\* compile_and_notify after the broadcast of 'compile_start': the compile
\* and the first step of the broadcast of its result
AfterCompileStart ==
  /\ server.pc = "running"
  /\ \E t \in 1..MaxTasks, o \in AwaitOutcomes, c \in CompileOutcomes :
       /\ server.tasks[t] = "compile_start"
       /\ server' =
            IF o = "ok"
            THEN [server EXCEPT !.compile_calls = @ + 1,
                                !.tasks[t] = IF c = "returned"
                                             THEN "compile_success"
                                             ELSE "compile_error"]
            ELSE compile_end(server, t, o)
  /\ UNCHANGED <<parser, linker, lexer>>

\* compile_and_notify after the broadcast of 'compile_success'
AfterCompileSuccess ==
  /\ server.pc = "running"
  /\ \E t \in 1..MaxTasks, o \in AwaitOutcomes :
       /\ server.tasks[t] = "compile_success"
       /\ server' = IF o = "raised"
                    THEN [server EXCEPT !.tasks[t] = "compile_error"]
                    ELSE compile_end(server, t, o)
  /\ UNCHANGED <<parser, linker, lexer>>

\* compile_and_notify after the broadcast of 'compile_error'
AfterCompileError ==
  /\ server.pc = "running"
  /\ \E t \in 1..MaxTasks, o \in AwaitOutcomes :
       /\ server.tasks[t] = "compile_error"
       /\ server' = compile_end(server, t, o)
  /\ UNCHANGED <<parser, linker, lexer>>

ServerNext ==
  \/ OnModified
  \/ HandleFileChange
  \/ CompileRequest
  \/ AfterCompileStart
  \/ AfterCompileSuccess
  \/ AfterCompileError

ServerSpec == ServerInit /\ [][ServerNext]_vars

\* the invocations that have passed the guard and have not ended
PastGuard ==
  {t \in 1..MaxTasks :
     server.tasks[t] \in {"compile_start", "compile_success", "compile_error"}}

\* C30: at most one invocation of compile_and_notify is past the guard at
\* a time; an invocation that reaches the guard while the flag is set
\* returns without compiling; and when an invocation that passed the guard
\* ends, compile_in_progress is false.
C30_OneCompileAtATime ==
  /\ [](Cardinality(PastGuard) <= 1)
  /\ [][\A t \in 1..MaxTasks :
          /\ (t \in PastGuard /\ server'.tasks[t] \in {"finished", "cancelled"})
               => ~server'.compile_in_progress
          /\ (/\ server.compile_in_progress
              /\ server.tasks[t] \in {"new", "sleeping"}
              /\ server'.tasks[t] \notin {"new", "sleeping"})
               => /\ server'.tasks[t] = "skipped"
                  /\ server'.compile_calls = server.compile_calls]_vars

\* one invocation has ended, a second is reporting a failed compile and a
\* third was turned away at the guard
C30_Witness ==
  /\ server.pc = "running"
  /\ \E a, b, c \in 1..MaxTasks :
       /\ server.tasks[a] = "finished"
       /\ server.tasks[b] = "compile_error"
       /\ server.tasks[c] = "skipped"
       /\ server.compile_in_progress

====
